---- MODULE Spec2Model ----
(***************************************************************************)
(* Model of the ATS backend (brndn-do/ats): the token-based session        *)
(* lifecycle of src/app.js (login / logout / refresh over the              *)
(* refresh_tokens table) and the bounded-retry loops of services/db.js and *)
(* services/s3.js.                                                         *)
(*                                                                         *)
(* Spec       the auth routes, run as concurrent request handlers that     *)
(*            interleave at their awaits (one pool.query = one atomic      *)
(*            statement of the relational store).                          *)
(* SpecRetry  one retry loop at a time (queryWithRetry, uploadResume,      *)
(*            downloadResume, deleteResume) with the attempt count as a    *)
(*            parameter and the underlying call resolving or rejecting     *)
(*            nondeterministically.                                        *)
(* SpecBucket emptyBucket of services/s3.js, one call at a time, in any    *)
(*            environment, over a bucket other requests put objects into,  *)
(*            with a listing of at most one page.                          *)
(* SpecResume the resume routes of src/app.js (upload, get, delete) run as  *)
(*            two concurrent handlers over table resumes and the bucket,   *)
(*            each queryWithRetry / S3 call resolving or exhausting its    *)
(*            attempts.                                                    *)
(* SpecGuard  createTokens called with arguments of any type, and requests *)
(*            that pass through the middleware (authenticate, authorize)   *)
(*            src/app.js registers for their route, while time passes.     *)
(***************************************************************************)
EXTENDS Integers, FiniteSets, Sequences, TLC

VARIABLES
    now,             \* the wall clock (Date.now()), in minutes
    refresh_tokens,  \* the rows of table refresh_tokens
    nextRowId,       \* the SERIAL of the next inserted row
    randomCount,     \* how many refresh tokens crypto.randomBytes has produced
    started,         \* how many requests the auth routes have received
    reqs,            \* the request handlers in flight, one per slot
    last,            \* the most recently completed request and its response
    rotatedOk,       \* history: tokens t for which a refresh(t) answered 200
    revokedOk,       \* history: tokens t for which a logout(t) answered 204
    call,            \* SpecRetry: the retry loop being executed
    bucket,          \* SpecRetry, SpecBucket: the keys of the S3 bucket
    sweep,           \* SpecBucket: the call of emptyBucket being executed
    resumes,         \* SpecResume: the rows of table resumes
    objects,         \* SpecResume: the objects of the S3 bucket, with bodies
    nextResumeId,    \* SpecResume: the SERIAL of the next row of resumes
    uuidCount,       \* SpecResume: how many object keys uuidv4 has produced
    handlers,        \* SpecResume: the resume handlers in flight
    answered,        \* SpecResume: the most recently completed resume request
    uploadedOk,      \* history: (id, key, body) of the uploads answered 201
    deletedOk,       \* history: (id, key) of the deletes answered 204
    guard,           \* SpecGuard: the request passing through its middleware
    tokenCall,       \* SpecGuard: the call of createTokens being executed
    minted           \* SpecGuard: the access token the client holds

vars == <<now, refresh_tokens, nextRowId, randomCount, started, reqs, last,
          rotatedOk, revokedOk, call, bucket, sweep, resumes, objects,
          nextResumeId, uuidCount, handlers, answered, uploadedOk, deletedOk,
          guard, tokenCall, minted>>

authVars == <<now, refresh_tokens, nextRowId, randomCount, started, reqs,
              last, rotatedOk, revokedOk>>

resumeVars == <<resumes, objects, nextResumeId, uuidCount, handlers,
                answered, uploadedOk, deletedOk>>

storageVars == <<sweep, resumeVars>>

retryVars == <<call, bucket, storageVars>>

guardVars == <<guard, tokenCall, minted>>

----------------------------------------------------------------------------
(* Bounds of the model *)

MaxReqs == 2        \* request handlers that can be in flight together
MaxOps == 3         \* requests accepted by the auth routes over a run
MaxTime == 86400    \* Spec: the clock stops advancing after 60 days
DigestBase == 1000  \* digests are drawn from above every raw token value
MaxAttempts == 3    \* largest `attempts` argument tried in SpecRetry
MaxKeys == 2        \* distinct object keys in SpecRetry
MaxMinutes == 6     \* SpecGuard, SpecTokens: the clock stops after this
MaxMinted == 1      \* SpecGuard: times createTokens hands out an access token
PageSize == 1       \* SpecBucket: keys one ListObjectsV2 response carries
MaxUploads == 1     \* SpecResume: files accepted by POST /api/resumes

----------------------------------------------------------------------------
(* Program constants *)

\* const REFRESH_TOKEN_EXPIRY = 30 * 24 * 60 * 60 * 1000; // 30 days
\* The clock of the model counts minutes: 30 * 24 * 60.
REFRESH_TOKEN_EXPIRY == 43200

\* const EXPIRES_IN = '5m'; the lifetime of an access token, in minutes.
EXPIRES_IN == 5

\* queryWithRetry(query, params = [], attempts = 3, delay = DELAY)
DefaultAttempts == 3

----------------------------------------------------------------------------
(* Values *)

Slots == 1..MaxReqs

\* Raw refresh tokens are numbered in the order crypto.randomBytes produced
\* them; BogusToken is a well-formed string that was never issued.
BogusToken == MaxOps + 1
NoToken == 0

\* Values a client can put in the refreshToken field of a body.
MissingBody == -3     \* no body at all (!req.body)
Undefined == -1       \* field absent, or the empty string
NonString == -2       \* a truthy value that is not a string, e.g. 123
FalsyNonString == -4  \* a falsy value that is not a string: 0, false, null

\* Values a client can put in the username / password fields.
UndefinedStr == "<undefined>"
NonStringStr == "<number>"
FalsyNonStringStr == "<zero>"
MissingBodyStr == "<nobody>"

\* bcrypt.hashSync(password, 12) and bcrypt.compare(password, pwd_hash)
BcryptHash(password) == <<"$2b$12$", password>>
BcryptCompare(password, pwd_hash) == BcryptHash(password) = pwd_hash

\* Table users: the seeded admin (username admin, password password) and one
\* ordinary user.  The auth routes only read it.
users ==
    { [id |-> 1, username |-> "admin", pwd_hash |-> BcryptHash("password"),
       is_admin |-> TRUE],
      [id |-> 2, username |-> "alice", pwd_hash |-> BcryptHash("alicepw"),
       is_admin |-> FALSE] }

\* hash(input): SHA-256 of the input as hex.  Modelled as a deterministic,
\* collision-free map whose result differs from its input.
hash(input) == DigestBase + input

\* process.env.JWT_SECRET, and a key that is not the server's.
JWT_SECRET == "JWT_SECRET"
OtherKey == "other key"

\* jwt.sign(payload, key, {expiresIn}): the claims with iat and exp, signed
\* with the key.
NoAccessToken ==
    [sub |-> 0, name |-> "", isAdmin |-> FALSE, iat |-> 0, exp |-> 0,
     key |-> ""]
JwtSignWith(key, id, username, isAdmin, t, expiresIn) ==
    [sub |-> id, name |-> username, isAdmin |-> isAdmin, iat |-> t,
     exp |-> t + expiresIn, key |-> key]

\* jwt.sign(payload, process.env.JWT_SECRET, { expiresIn }) of createTokens.
JwtSign(id, username, isAdmin, t) ==
    JwtSignWith(JWT_SECRET, id, username, isAdmin, t, EXPIRES_IN)

\* crypto.randomBytes(32).toString('hex'): a value no earlier call returned.
RandomBytes(count) == count + 1

\* Mutant: the hash returned is not the hash of the refresh token returned.
createTokens_HashOfOther(id, username, isAdmin, count, t) ==
    LET refreshToken == RandomBytes(count)
    IN [accessToken |-> JwtSign(id, username, isAdmin, t),
        refreshToken |-> refreshToken,
        refreshTokenHash |-> hash(count)]

\* createTokens(id, username, isAdmin): the access token, a fresh random
\* refresh token and the hash of that refresh token.
createTokens(id, username, isAdmin, count, t) ==
    LET refreshToken == RandomBytes(count)
    IN [accessToken |-> JwtSign(id, username, isAdmin, t),
        refreshToken |-> refreshToken,
        refreshTokenHash |-> hash(refreshToken)]

\* Mutant: the lifetime is not added.
ExpiresAt_NoLifetime(t) == t

\* new Date(Date.now() + REFRESH_TOKEN_EXPIRY) of the login handler.
ExpiresAt(t) == t + REFRESH_TOKEN_EXPIRY

\* new Date(Date.now() + 30 * 24 * 60 * 60 * 1000) of the refresh handler.
RotatedExpiresAt(t) == t + 30 * 24 * 60

\* Mutant: the catch block never leaves the loop, so the delay also follows
\* the final failure.
IsLastAttempt_Never(attempt, attempts) == FALSE

\* The attempt === attempts - 1 test of the catch block of a retry loop.
IsLastAttempt(attempt, attempts) == attempt = attempts - 1

\* Mutant: the loop stops one attempt early.
LoopCondition_OneShort(attempt, attempts) == attempt < attempts - 1

\* The attempt < attempts condition of the for loop of a retry loop.
LoopCondition(attempt, attempts) == attempt < attempts

----------------------------------------------------------------------------
(* Request handlers *)

NoResponse ==
    [status |-> 0, error |-> "", accessToken |-> NoAccessToken,
     refreshToken |-> NoToken]

ErrorResponse(status, error) ==
    [status |-> status, error |-> error, accessToken |-> NoAccessToken,
     refreshToken |-> NoToken]

\* res.json({ accessToken, refreshToken })
TokenResponse(accessToken, refreshToken) ==
    [status |-> 200, error |-> "", accessToken |-> accessToken,
     refreshToken |-> refreshToken]

\* The error handler middleware: every error passed to next(err) ends as 500.
InternalError == ErrorResponse(500, "Internal server error")

\* The local variables of a handler; pc is the statement it awaits.
IdleRequest ==
    [kind |-> "none", pc |-> "idle",
     username |-> "", password |-> "", refreshToken |-> NoToken,
     refreshTokenHash |-> 0, userId |-> 0,
     accessToken |-> NoAccessToken, newRefreshToken |-> NoToken,
     newRefreshTokenHash |-> 0, expiresAt |-> 0, queries |-> 0,
     hadRecord |-> FALSE]

\* await queryWithRetry(...): the handler has made one more query.
Issue(req) == [req EXCEPT !.queries = @ + 1]

\* What is kept of a completed request: its route, its body, res, and how
\* many times it called queryWithRetry.
\* wasRotated / wasRevoked tell whether, when the response was sent, an
\* earlier refresh / logout with the same refreshToken had already succeeded;
\* hadRecord tells whether a record of the refreshToken of a logout existed
\* when its handler was entered (kept where the DELETE is a step of its own).
NoRequest ==
    [kind |-> "none", username |-> "", password |-> "",
     refreshToken |-> NoToken, res |-> NoResponse, queries |-> 0,
     wasRotated |-> FALSE, wasRevoked |-> FALSE, hadRecord |-> FALSE]

\* Handlers are anonymous: a new request takes the lowest free slot.
Free(r) ==
    /\ reqs[r].pc = "idle"
    /\ \A q \in Slots : q < r => reqs[q].pc # "idle"

\* A handler that awaits pool.query
Querying(r) == reqs[r].pc \in {"loginInsert", "refreshUser", "refreshUpdate"}

\* The handler sends its response and ends.
Respond(r, req, response) ==
    /\ reqs' = [reqs EXCEPT ![r] = IdleRequest]
    /\ last' = [kind |-> req.kind, username |-> req.username,
                password |-> req.password, refreshToken |-> req.refreshToken,
                res |-> response, queries |-> req.queries,
                wasRotated |-> req.refreshToken \in rotatedOk,
                wasRevoked |-> req.refreshToken \in revokedOk,
                hadRecord |-> req.hadRecord]

\* A request on its way through the middleware of its route: the route, the
\* Authorization header (none, 'Bearer' alone, or 'Bearer <token>'), what
\* runs next (pc), req.user, the response, and the functions that ran.
NoGuard ==
    [route |-> "", header |-> "none", token |-> NoAccessToken,
     chain |-> <<>>, pc |-> "idle", user |-> NoAccessToken,
     status |-> 0, error |-> "", trace |-> <<>>]

\* JavaScript values, as createTokens sees its arguments: typeof and value.
JsNumber(n) == [type |-> "number", num |-> n, str |-> "", bool |-> FALSE]
JsString(x) == [type |-> "string", num |-> 0, str |-> x, bool |-> FALSE]
JsBoolean(b) == [type |-> "boolean", num |-> 0, str |-> "", bool |-> b]
JsUndefined == [type |-> "undefined", num |-> 0, str |-> "", bool |-> FALSE]
\* typeof null === 'object'
JsNull == [type |-> "object", num |-> 0, str |-> "", bool |-> FALSE]

\* What createTokens returns, and the value of a call that has not returned.
NoTokens ==
    [accessToken |-> NoAccessToken, refreshToken |-> NoToken,
     refreshTokenHash |-> 0]

\* A call of createTokens: its arguments, where it stands, whether jwt.sign
\* has been called, how many values crypto.randomBytes had produced when
\* it was entered, and what it threw or returned.
NoTokenCall ==
    [pc |-> "idle", id |-> JsUndefined, username |-> JsUndefined,
     isAdmin |-> JsUndefined, signed |-> 0, signedAt |-> 0,
     randomAtEntry |-> 0, error |-> "", result |-> NoTokens]

\* The frame of a retry loop: its function, its arguments (attempts, key),
\* its loop variable (attempt), where it stands (pc), what it returned or
\* threw, counts of what it has done so far, the errors the underlying call
\* rejected with (causes) and what logger.error was given (logged), the
\* object key uploadResume built, the Key of each PutObjectCommand it sent
\* (sent), and the bucket as it was when the function was called (before).
\* The Key of an S3 command: a uuid and what the template literal puts
\* after it.  uploadResume alone builds one; NoObjectKey elsewhere.
NoObjectKey == [id |-> 0, ext |-> ""]

NoCall ==
    [fn |-> "none", pc |-> "idle", attempts |-> 0, attempt |-> 0, key |-> 0,
     result |-> 0, error |-> "",
     invocations |-> 0, failures |-> 0, resolved |-> 0, waits |-> 0,
     value |-> 0, causes |-> <<>>, logged |-> <<>>,
     objectKey |-> NoObjectKey, sent |-> <<>>, before |-> {}]

\* The frame of an emptyBucket call: NODE_ENV at the call (env), its
\* arguments and loop variable, where it stands (pc), the listing it was
\* given (listed), what it threw, counts of the commands it has sent and of
\* its failures and delays, and the bucket as it was when listed (held).
NoSweep ==
    [pc |-> "idle", env |-> "", attempts |-> 0, attempt |-> 0, listed |-> {},
     held |-> {}, error |-> "", lists |-> 0, deletes |-> 0, failures |-> 0,
     waits |-> 0, failedAt |-> <<>>]

\* The slots of the resume handlers that can be in flight together.
ResumeSlots == {1, 2}

NoBody == ""

\* req.file of a request without the 'resume' field.
NoFile == [mimetype |-> "", originalname |-> "", buffer |-> NoBody]

\* The local variables of a resume handler; pc is the call it awaits.
IdleHandler ==
    [kind |-> "none", pc |-> "idle", resumeId |-> 0, file |-> NoFile,
     objectKey |-> 0, ops |-> 0]

NoResumeResponse ==
    [status |-> 0, error |-> "", resumeId |-> 0, body |-> NoBody]

\* What is kept of a completed resume request: its route, the id it named,
\* res, how many times it called queryWithRetry or an S3 function, and, when
\* one of them threw, which one and what the underlying error was.
NoResumeRequest ==
    [kind |-> "none", resumeId |-> 0, res |-> NoResumeResponse, ops |-> 0,
     failed |-> "", cause |-> ""]

Init ==
    /\ now = 0
    /\ refresh_tokens = {}
    /\ nextRowId = 1
    /\ randomCount = 0
    /\ started = 0
    /\ reqs = [r \in Slots |-> IdleRequest]
    /\ last = NoRequest
    /\ rotatedOk = {}
    /\ revokedOk = {}
    /\ call = NoCall
    /\ bucket = {}
    /\ sweep = NoSweep
    /\ resumes = {}
    /\ objects = {}
    /\ nextResumeId = 1
    /\ uuidCount = 0
    /\ handlers = [h \in ResumeSlots |-> IdleHandler]
    /\ answered = NoResumeRequest
    /\ uploadedOk = {}
    /\ deletedOk = {}
    /\ guard = NoGuard
    /\ tokenCall = NoTokenCall
    /\ minted = {}

\* The model explores runs of at most MaxOps requests.
CanStart == started < MaxOps

\* Bodies a client sends to POST /api/auth/login.
LoginBodies ==
    { [username |-> MissingBodyStr, password |-> MissingBodyStr],
      [username |-> UndefinedStr, password |-> "password"],
      [username |-> "admin", password |-> UndefinedStr],
      [username |-> NonStringStr, password |-> "password"],
      [username |-> FalsyNonStringStr, password |-> "password"],
      [username |-> "admin", password |-> NonStringStr],
      [username |-> "admin", password |-> "password"],
      [username |-> "admin", password |-> "alicepw"],
      [username |-> "alice", password |-> "alicepw"],
      [username |-> "nobody", password |-> "password"] }

\* Values a client sends as refreshToken: a token that was generated and is
\* not still held back by a handler, a well-formed string that is no token,
\* or a malformed body.
Undisclosed == {reqs[r].newRefreshToken : r \in Slots} \ {NoToken}
TokenInputs ==
    ((1..randomCount) \ Undisclosed)
        \cup {BogusToken, MissingBody, Undefined, NonString, FalsyNonString}

----------------------------------------------------------------------------
(* POST /api/auth/login *)

\* Input validation of the login handler; NoResponse when it accepts.
LoginValidation(username, password) ==
    IF username = MissingBodyStr THEN ErrorResponse(400, "Missing body")
    ELSE IF \/ username \in {UndefinedStr, FalsyNonStringStr}
            \/ password \in {UndefinedStr, FalsyNonStringStr}
         THEN ErrorResponse(400, "Missing required fields")
    ELSE IF username = NonStringStr \/ password = NonStringStr
         THEN ErrorResponse(422, "Incorrect data type(s) in body")
    ELSE NoResponse

\* Mutant: an unknown username gets an answer of its own.
UserNotFound_Distinct == ErrorResponse(404, "User not found")

\* selectResult.rowCount === 0: the username doesn't exist.
UserNotFound == ErrorResponse(401, "Invalid credentials")

\* !(await bcrypt.compare(password, userData.pwd_hash)): wrong password.
WrongPassword == ErrorResponse(401, "Invalid credentials")

\* The handler up to and including its first query: validation, then
\* SELECT ... FROM users WHERE username = $1, which resolves (resolves) or
\* has failed on all its attempts; the handler compares the password,
\* creates the tokens and builds the INSERT parameters.  Nothing the handler
\* does before that SELECT is seen by another request, so the request is
\* taken up at the instant of the SELECT.
Login(r, body, resolves) ==
    /\ Free(r)
    /\ CanStart
    /\ started' = started + 1
    /\ LET req == [IdleRequest EXCEPT !.kind = "login",
                                      !.username = body.username,
                                      !.password = body.password]
           rejected == LoginValidation(body.username, body.password)
           rows == {u \in users : u.username = req.username}
       IN IF rejected # NoResponse
          THEN /\ Respond(r, req, rejected)
               /\ UNCHANGED randomCount
          ELSE IF ~resolves
          THEN /\ Respond(r, Issue(req), InternalError)
               /\ UNCHANGED randomCount
          ELSE IF rows = {}
          THEN /\ Respond(r, Issue(req), UserNotFound)
               /\ UNCHANGED randomCount
          ELSE LET userData == CHOOSE u \in rows : TRUE
               IN IF ~BcryptCompare(req.password, userData.pwd_hash)
                  THEN /\ Respond(r, Issue(req), WrongPassword)
                       /\ UNCHANGED randomCount
                  ELSE LET tokens == createTokens(userData.id,
                                                  userData.username,
                                                  userData.is_admin,
                                                  randomCount, now)
                       IN /\ reqs' = [reqs EXCEPT ![r] =
                                [Issue(req) EXCEPT
                                   !.pc = "loginInsert",
                                   !.userId = userData.id,
                                   !.accessToken = tokens.accessToken,
                                   !.newRefreshToken = tokens.refreshToken,
                                   !.newRefreshTokenHash =
                                       tokens.refreshTokenHash,
                                   !.expiresAt = ExpiresAt(now)]]
                          /\ randomCount' = randomCount + 1
                          /\ UNCHANGED last
    /\ UNCHANGED <<now, refresh_tokens, nextRowId, rotatedOk, revokedOk,
                   retryVars, guardVars>>

\* Mutant: the INSERT binds the raw refresh token instead of its hash.
InsertedRow_RawToken(id, req) ==
    [id |-> id, user_id |-> req.userId,
     refresh_token_hash |-> req.newRefreshToken,
     expires_at |-> req.expiresAt]

\* The row written by INSERT INTO refresh_tokens (user_id,
\* refresh_token_hash, expires_at) VALUES ($1, $2, $3).
InsertedRow(id, req) ==
    [id |-> id, user_id |-> req.userId,
     refresh_token_hash |-> req.newRefreshTokenHash,
     expires_at |-> req.expiresAt]

\* Mutant: a login replaces the sessions the user already has.
LoginInsert_ReplacesSessions(r) ==
    /\ reqs[r].pc = "loginInsert"
    /\ LET req == reqs[r]
           row == InsertedRow(nextRowId, req)
       IN /\ refresh_tokens' =
                 {old \in refresh_tokens : old.user_id # req.userId}
                     \cup {row}
          /\ Respond(r, Issue(req), TokenResponse(req.accessToken,
                                                  req.newRefreshToken))
    /\ nextRowId' = nextRowId + 1
    /\ UNCHANGED <<now, randomCount, rotatedOk, revokedOk, started, retryVars,
                   guardVars>>

\* The INSERT resolves and the handler answers with the tokens.
LoginInsert(r) ==
    /\ reqs[r].pc = "loginInsert"
    /\ LET req == reqs[r]
           row == InsertedRow(nextRowId, req)
       IN /\ refresh_tokens' = refresh_tokens \cup {row}
          /\ Respond(r, Issue(req), TokenResponse(req.accessToken,
                                                  req.newRefreshToken))
    /\ nextRowId' = nextRowId + 1
    /\ UNCHANGED <<now, randomCount, rotatedOk, revokedOk, started, retryVars,
                   guardVars>>

----------------------------------------------------------------------------
(* POST /api/auth/logout *)

\* Input validation of the logout handler; NoResponse when it accepts.
LogoutValidation(refreshToken) ==
    IF refreshToken = MissingBody THEN ErrorResponse(400, "Missing body")
    ELSE IF refreshToken \in {Undefined, FalsyNonString}
         THEN ErrorResponse(400, "Missing refreshToken")
    ELSE IF refreshToken = NonString
         THEN ErrorResponse(422, "Incorrect data type in body")
    ELSE NoResponse

\* The rows of SELECT ... FROM refresh_tokens WHERE refresh_token_hash = $1.
SelectWhereHash(table, refreshTokenHash) ==
    {row \in table : row.refresh_token_hash = refreshTokenHash}

\* Mutant: the DELETE is keyed by the wrong value and removes nothing.
DeleteWhereHash_WrongKey(table, refreshTokenHash) ==
    {row \in table : row.refresh_token_hash # hash(refreshTokenHash)}

\* The table after DELETE FROM refresh_tokens WHERE refresh_token_hash = $1.
DeleteWhereHash(table, refreshTokenHash) ==
    {row \in table : row.refresh_token_hash # refreshTokenHash}

\* Mutant: a DELETE that matched no row is answered 404, as the other
\* DELETE routes do.
Logout_NotFound(r, refreshToken, resolves) ==
    /\ Free(r)
    /\ CanStart
    /\ started' = started + 1
    /\ LET req == [IdleRequest EXCEPT !.kind = "logout",
                                      !.refreshToken = refreshToken,
                                      !.refreshTokenHash = hash(refreshToken)]
           rejected == LogoutValidation(refreshToken)
           rowCount == Cardinality(SelectWhereHash(refresh_tokens,
                                                   req.refreshTokenHash))
       IN IF rejected # NoResponse
          THEN /\ Respond(r, req, rejected)
               /\ UNCHANGED <<refresh_tokens, revokedOk>>
          ELSE IF ~resolves
          THEN /\ Respond(r, Issue(req), InternalError)
               /\ UNCHANGED <<refresh_tokens, revokedOk>>
          ELSE /\ refresh_tokens' = DeleteWhereHash(refresh_tokens,
                                                    req.refreshTokenHash)
               /\ IF rowCount = 0
                  THEN /\ Respond(r, Issue(req),
                                  ErrorResponse(404, "Not found"))
                       /\ UNCHANGED revokedOk
                  ELSE /\ Respond(r, Issue(req), ErrorResponse(204, ""))
                       /\ revokedOk' = revokedOk \cup {refreshToken}
    /\ UNCHANGED <<now, nextRowId, randomCount, rotatedOk, retryVars,
                   guardVars>>

\* The whole handler: validation, then the DELETE, its only query, which
\* resolves (resolves) or has failed on all its attempts; when it resolves
\* the handler answers 204, whatever its row count.
Logout(r, refreshToken, resolves) ==
    /\ Free(r)
    /\ CanStart
    /\ started' = started + 1
    /\ LET req == [IdleRequest EXCEPT !.kind = "logout",
                                      !.refreshToken = refreshToken,
                                      !.refreshTokenHash = hash(refreshToken)]
           rejected == LogoutValidation(refreshToken)
       IN IF rejected # NoResponse
          THEN /\ Respond(r, req, rejected)
               /\ UNCHANGED <<refresh_tokens, revokedOk>>
          ELSE IF ~resolves
          THEN /\ Respond(r, Issue(req), InternalError)
               /\ UNCHANGED <<refresh_tokens, revokedOk>>
          ELSE /\ refresh_tokens' = DeleteWhereHash(refresh_tokens,
                                                    req.refreshTokenHash)
               /\ Respond(r, Issue(req), ErrorResponse(204, ""))
               /\ revokedOk' = revokedOk \cup {refreshToken}
    /\ UNCHANGED <<now, nextRowId, randomCount, rotatedOk, retryVars,
                   guardVars>>

----------------------------------------------------------------------------
(* POST /api/auth/refresh *)

\* Mutant: the refresh handler does not check the type of refreshToken.
RefreshValidation_NoTypeCheck(refreshToken) ==
    IF refreshToken = MissingBody THEN ErrorResponse(400, "Missing body")
    ELSE IF refreshToken \in {Undefined, FalsyNonString}
         THEN ErrorResponse(400, "Missing refresh token")
    ELSE NoResponse

\* Input validation of the refresh handler; NoResponse when it accepts.
RefreshValidation(refreshToken) ==
    IF refreshToken = MissingBody THEN ErrorResponse(400, "Missing body")
    ELSE IF refreshToken \in {Undefined, FalsyNonString}
         THEN ErrorResponse(400, "Missing refresh token")
    ELSE IF refreshToken = NonString
         THEN ErrorResponse(422, "Invalid data type in body")
    ELSE NoResponse

\* Mutant: a record that expires exactly now is already rejected.
NoMatchOrExpired_Inclusive(rows, t) ==
    \/ rows = {}
    \/ (CHOOSE row \in rows : TRUE).expires_at <= t

\* rowCount === 0 || rows[0].expires_at < new Date()
NoMatchOrExpired(rows, t) ==
    \/ rows = {}
    \/ (CHOOSE row \in rows : TRUE).expires_at < t

\* The handler up to and including its first query: validation, then the
\* lookup of the record, which resolves (resolves) or has failed on all its
\* attempts; the handler rejects an unknown or expired token and otherwise
\* goes on to read the user.
Refresh(r, refreshToken, resolves) ==
    /\ Free(r)
    /\ CanStart
    /\ started' = started + 1
    /\ LET req == [IdleRequest EXCEPT !.kind = "refresh",
                                      !.refreshToken = refreshToken,
                                      !.refreshTokenHash = hash(refreshToken)]
           rejected == RefreshValidation(refreshToken)
           rows == SelectWhereHash(refresh_tokens, req.refreshTokenHash)
       IN IF rejected # NoResponse
          THEN Respond(r, req, rejected)
          ELSE IF ~resolves
          THEN Respond(r, Issue(req), InternalError)
          ELSE IF NoMatchOrExpired(rows, now)
          THEN Respond(r, Issue(req),
                       ErrorResponse(401, "Invalid refresh token"))
          ELSE /\ reqs' = [reqs EXCEPT ![r] =
                      [Issue(req) EXCEPT !.pc = "refreshUser",
                                  !.userId =
                                      (CHOOSE row \in rows : TRUE).user_id]]
               /\ UNCHANGED last
    /\ UNCHANGED <<now, refresh_tokens, nextRowId, randomCount, rotatedOk,
                   revokedOk, retryVars, guardVars>>

\* SELECT ... FROM users WHERE id = $1 resolves; the handler creates the new
\* tokens and builds the UPDATE parameters.  With no such user, rows[0] is
\* undefined and reading row.id throws, which ends as 500.
RefreshUser(r) ==
    /\ reqs[r].pc = "refreshUser"
    /\ LET req == reqs[r]
           rows == {u \in users : u.id = req.userId}
       IN IF rows = {}
          THEN /\ Respond(r, Issue(req), InternalError)
               /\ UNCHANGED randomCount
          ELSE LET row == CHOOSE u \in rows : TRUE
                   tokens == createTokens(row.id, row.username, row.is_admin,
                                          randomCount, now)
               IN /\ reqs' = [reqs EXCEPT ![r] =
                        [Issue(req) EXCEPT
                           !.pc = "refreshUpdate",
                           !.accessToken = tokens.accessToken,
                           !.newRefreshToken = tokens.refreshToken,
                           !.newRefreshTokenHash = tokens.refreshTokenHash,
                           !.expiresAt = RotatedExpiresAt(now)]]
                  /\ randomCount' = randomCount + 1
                  /\ UNCHANGED last
    /\ UNCHANGED <<now, refresh_tokens, nextRowId, rotatedOk, revokedOk,
                   started, retryVars, guardVars>>

\* Mutant: the UPDATE renews the expiry and leaves the old hash in place.
UpdateWhereHash_KeepsOldHash(table, newHash, expiresAt, oldHash) ==
    {IF row.refresh_token_hash = oldHash
        THEN [row EXCEPT !.expires_at = expiresAt]
        ELSE row : row \in table}

\* The table after UPDATE refresh_tokens SET refresh_token_hash = $1,
\* expires_at = $2 WHERE refresh_token_hash = $3, as its parameters and the
\* unit tests of the route describe it (the statement text of src/app.js
\* has no comma between the two assignments).
UpdateWhereHash(table, newHash, expiresAt, oldHash) ==
    {IF row.refresh_token_hash = oldHash
        THEN [row EXCEPT !.refresh_token_hash = newHash,
                         !.expires_at = expiresAt]
        ELSE row : row \in table}

\* Mutant: the rotation adds a record for the new token and keeps the one
\* of the old token.
RefreshUpdate_InsertsNew(r) ==
    /\ reqs[r].pc = "refreshUpdate"
    /\ LET req == reqs[r]
       IN /\ refresh_tokens' =
                 refresh_tokens \cup
                    {InsertedRow(nextRowId + 10 * randomCount, req)}
          /\ Respond(r, Issue(req), TokenResponse(req.accessToken,
                                                  req.newRefreshToken))
          /\ rotatedOk' = rotatedOk \cup {req.refreshToken}
    /\ UNCHANGED <<now, nextRowId, randomCount, revokedOk, started, retryVars,
                   guardVars>>

\* The UPDATE resolves and the handler answers with the new tokens; the row
\* count of the UPDATE is not looked at.
RefreshUpdate(r) ==
    /\ reqs[r].pc = "refreshUpdate"
    /\ LET req == reqs[r]
       IN /\ refresh_tokens' = UpdateWhereHash(refresh_tokens,
                                               req.newRefreshTokenHash,
                                               req.expiresAt,
                                               req.refreshTokenHash)
          /\ Respond(r, Issue(req), TokenResponse(req.accessToken,
                                                  req.newRefreshToken))
          /\ rotatedOk' = rotatedOk \cup {req.refreshToken}
    /\ UNCHANGED <<now, nextRowId, randomCount, revokedOk, started, retryVars,
                   guardVars>>

----------------------------------------------------------------------------
(* queryWithRetry as seen from a handler, and the clock *)

\* Mutant: a handler whose query failed withdraws the record of the token
\* it was called with.
QueryFails_DropsRecord(r) ==
    /\ Querying(r)
    /\ Respond(r, Issue(reqs[r]), InternalError)
    /\ refresh_tokens' = DeleteWhereHash(refresh_tokens,
                                         reqs[r].refreshTokenHash)
    /\ UNCHANGED <<now, nextRowId, randomCount, rotatedOk, revokedOk,
                   started, retryVars, guardVars>>

\* The queryWithRetry a handler awaits after its first one throws:
\* pool.query has rejected on each of its attempts (the loop itself is
\* SpecRetry; a rejected statement leaves the tables as they were).  The
\* handler passes the error to next(err) and the error handler answers 500.
QueryFails(r) ==
    /\ Querying(r)
    /\ Respond(r, Issue(reqs[r]), InternalError)
    /\ UNCHANGED <<now, refresh_tokens, nextRowId, randomCount, rotatedOk,
                   revokedOk, started, retryVars, guardVars>>

\* Mutant: as time passes a sweep removes the records that have expired.
Tick_Sweeps ==
    /\ now + REFRESH_TOKEN_EXPIRY <= MaxTime
    /\ now' = now + REFRESH_TOKEN_EXPIRY
    /\ refresh_tokens' = {row \in refresh_tokens : row.expires_at >= now'}
    /\ UNCHANGED <<nextRowId, randomCount, reqs, last, rotatedOk, revokedOk,
                   started, retryVars, guardVars>>

\* Time passes, one refresh-token lifetime at a time.
Tick ==
    /\ now + REFRESH_TOKEN_EXPIRY <= MaxTime
    /\ now' = now + REFRESH_TOKEN_EXPIRY
    /\ UNCHANGED <<refresh_tokens, nextRowId, randomCount, reqs, last,
                   rotatedOk, revokedOk, started, retryVars, guardVars>>

Next ==
    \/ \E r \in Slots, body \in LoginBodies, resolves \in BOOLEAN :
          Login(r, body, resolves)
    \/ \E r \in Slots : LoginInsert(r)
    \/ \E r \in Slots, t \in TokenInputs, resolves \in BOOLEAN :
          Logout(r, t, resolves)
    \/ \E r \in Slots, t \in TokenInputs, resolves \in BOOLEAN :
          Refresh(r, t, resolves)
    \/ \E r \in Slots : RefreshUser(r)
    \/ \E r \in Slots : RefreshUpdate(r)
    \/ \E r \in Slots : QueryFails(r)
    \/ Tick

Spec == Init /\ [][Next]_vars

----------------------------------------------------------------------------
(* POST /api/auth/logout, its DELETE taken as a step of its own *)

\* The logout handler is entered: validation, and the DELETE is sent; the
\* handler awaits it while the queries of other requests resolve.
LogoutArrives(r, refreshToken) ==
    /\ Free(r)
    /\ CanStart
    /\ started' = started + 1
    /\ LET req == [IdleRequest EXCEPT
                      !.kind = "logout",
                      !.refreshToken = refreshToken,
                      !.refreshTokenHash = hash(refreshToken),
                      !.hadRecord =
                          SelectWhereHash(refresh_tokens,
                                          hash(refreshToken)) # {}]
           rejected == LogoutValidation(refreshToken)
       IN IF rejected # NoResponse
          THEN Respond(r, req, rejected)
          ELSE /\ reqs' = [reqs EXCEPT ![r] =
                              [req EXCEPT !.pc = "logoutDelete"]]
               /\ UNCHANGED last
    /\ UNCHANGED <<now, refresh_tokens, nextRowId, randomCount, rotatedOk,
                   revokedOk, retryVars, guardVars>>

\* Mutant: a logout whose DELETE removed no row is answered 404.
LogoutDelete_ReportsNoRow(r, resolves) ==
    /\ reqs[r].pc = "logoutDelete"
    /\ LET req == reqs[r]
       IN IF ~resolves
          THEN /\ Respond(r, Issue(req), InternalError)
               /\ UNCHANGED <<refresh_tokens, revokedOk>>
          ELSE /\ refresh_tokens' = DeleteWhereHash(refresh_tokens,
                                                    req.refreshTokenHash)
               /\ Respond(r, Issue(req),
                          IF refresh_tokens' = refresh_tokens
                          THEN ErrorResponse(404, "Refresh token not found")
                          ELSE ErrorResponse(204, ""))
               /\ revokedOk' = revokedOk \cup {req.refreshToken}
    /\ UNCHANGED <<now, nextRowId, randomCount, rotatedOk, started, retryVars,
                   guardVars>>

\* The DELETE resolves (resolves), on the table as it is now, or has failed
\* on all its attempts; when it resolves the handler answers 204, whatever
\* its row count.
LogoutDelete(r, resolves) ==
    /\ reqs[r].pc = "logoutDelete"
    /\ LET req == reqs[r]
       IN IF ~resolves
          THEN /\ Respond(r, Issue(req), InternalError)
               /\ UNCHANGED <<refresh_tokens, revokedOk>>
          ELSE /\ refresh_tokens' = DeleteWhereHash(refresh_tokens,
                                                    req.refreshTokenHash)
               /\ Respond(r, Issue(req), ErrorResponse(204, ""))
               /\ revokedOk' = revokedOk \cup {req.refreshToken}
    /\ UNCHANGED <<now, nextRowId, randomCount, rotatedOk, started, retryVars,
                   guardVars>>

\* The logins of the users of the seed data.
SeedLogins ==
    {[username |-> "admin", password |-> "password"],
     [username |-> "alice", password |-> "alicepw"]}

NextLogoutRace ==
    \/ \E r \in Slots, body \in SeedLogins : Login(r, body, TRUE)
    \/ \E r \in Slots : LoginInsert(r)
    \/ \E r \in Slots, t \in TokenInputs : LogoutArrives(r, t)
    \/ \E r \in Slots, resolves \in BOOLEAN : LogoutDelete(r, resolves)
    \/ \E r \in Slots, t \in TokenInputs, resolves \in BOOLEAN :
          Refresh(r, t, resolves)
    \/ \E r \in Slots : RefreshUser(r)
    \/ \E r \in Slots : RefreshUpdate(r)
    \/ \E r \in Slots : QueryFails(r)

SpecLogoutRace == Init /\ [][NextLogoutRace]_vars

----------------------------------------------------------------------------
(* The retry loops: queryWithRetry (services/db.js) and uploadResume,       *)
(* downloadResume, deleteResume (services/s3.js)                            *)

RetryFns == {"queryWithRetry", "uploadResume", "downloadResume",
             "deleteResume"}

Keys == 1..MaxKeys

\* What the underlying call can resolve with: pool.query gives a result with
\* rowCount 0 or 1, an S3 command gives the object the command names.
QueryResults == {0, 1}

\* The error thrown after the loop of each function.
ExhaustedError(fn) ==
    CASE fn = "queryWithRetry" -> "Query failed after all attempts"
      [] fn = "uploadResume" -> "Upload resume failed after all attempts"
      [] fn = "downloadResume" -> "Download resume failed after all attempts"
      [] fn = "deleteResume" -> "Delete resume failed after all attempts"

\* The errors pool.query and client.send reject with.
Causes == {"S3 connection error", "connection terminated unexpectedly"}

\* Mutant: the error of the last failed attempt is thrown again.
ThrownError_Rethrow(fn, cause) == cause

\* What the function throws when its last attempt has failed with `cause`:
\* the loop is left with break and the throw after it is reached.
ThrownError(fn, cause) == ExhaustedError(fn)

\* Mutant: the underlying call is not awaited, so every attempt of the loop
\* is issued at once.
EnterLoop_NotAwaited(c, attempt) ==
    IF LoopCondition(attempt, c.attempts)
    THEN [c EXCEPT !.attempt = attempt, !.pc = "pending",
                   !.invocations = @ + (c.attempts - attempt)]
    ELSE [c EXCEPT !.attempt = attempt, !.pc = "thrown",
                   !.error = ExhaustedError(c.fn)]

\* Enter the for loop with loop variable `attempt`: issue the underlying call
\* while the loop condition holds, else fall through to the throw.
EnterLoop(c, attempt) ==
    IF LoopCondition(attempt, c.attempts)
    THEN [c EXCEPT !.attempt = attempt, !.pc = "pending",
                   !.invocations = @ + 1,
                   !.sent = IF c.fn = "uploadResume"
                            THEN Append(@, c.objectKey) ELSE @]
    ELSE [c EXCEPT !.attempt = attempt, !.pc = "thrown",
                   !.error = ExhaustedError(c.fn)]

\* const objectKey = `${id}.pdf`
ObjectKeyOf(id) == [id |-> id, ext |-> ".pdf"]

\* Mutant: the loop tests its condition after the body (do ... while), so
\* the first attempt is made whatever `attempts` is.
RetryCall_DoWhile(fn, attempts, key) ==
    /\ call.pc \in {"idle", "returned", "thrown"}
    /\ fn = "queryWithRetry" => key = 0
    /\ fn = "uploadResume" => key \in Keys \ bucket
    /\ fn \in {"downloadResume", "deleteResume"} => key \in Keys
    /\ call' = [NoCall EXCEPT
                   !.fn = fn, !.attempts = attempts, !.key = key,
                   !.objectKey = IF fn = "uploadResume"
                                 THEN ObjectKeyOf(key)
                                 ELSE NoObjectKey,
                   !.sent = IF fn = "uploadResume"
                            THEN <<ObjectKeyOf(key)>> ELSE <<>>,
                   !.before = bucket,
                   !.pc = "pending", !.invocations = 1]
    /\ UNCHANGED <<bucket, storageVars, authVars, guardVars>>

\* A caller invokes one of the functions.  uploadResume draws its object key
\* (uuidv4) before the loop; the other S3 functions are given a key.
RetryCall(fn, attempts, key) ==
    /\ call.pc \in {"idle", "returned", "thrown"}
    /\ fn = "queryWithRetry" => key = 0
    /\ fn = "uploadResume" => key \in Keys \ bucket
    /\ fn \in {"downloadResume", "deleteResume"} => key \in Keys
    /\ call' = EnterLoop([NoCall EXCEPT
                              !.fn = fn, !.attempts = attempts, !.key = key,
                              !.objectKey = IF fn = "uploadResume"
                                            THEN ObjectKeyOf(key)
                                            ELSE NoObjectKey,
                              !.before = bucket],
                          0)
    /\ UNCHANGED <<bucket, storageVars, authVars, guardVars>>

\* The effect of a successful S3 command on the bucket.
BucketAfter(fn, key) ==
    CASE fn = "uploadResume" -> bucket \cup {key}
      [] fn = "deleteResume" -> bucket \ {key}
      [] OTHER -> bucket

\* What the function returns once the underlying call has resolved with v:
\* the result of pool.query or of GetObject, { objectKey } for an upload,
\* nothing for a delete.
ReturnValue(fn, key, v) ==
    CASE fn = "uploadResume" -> key
      [] fn = "deleteResume" -> 0
      [] OTHER -> v

\* Mutant: a query result without rows is taken for a failure and the loop
\* goes on to its delay.
Returned_RetriesEmpty(c, v) ==
    IF c.fn = "queryWithRetry" /\ v = 0
    THEN IF IsLastAttempt(c.attempt, c.attempts)
         THEN [c EXCEPT !.pc = "thrown", !.resolved = @ + 1, !.value = v,
                        !.error = ExhaustedError(c.fn)]
         ELSE [c EXCEPT !.pc = "waiting", !.resolved = @ + 1, !.value = v,
                        !.waits = @ + 1]
    ELSE [c EXCEPT !.pc = "returned", !.resolved = @ + 1, !.value = v,
                   !.result = ReturnValue(c.fn, c.key, v)]

\* The try block after its await: whatever the underlying call resolved
\* with, rows or none, the function returns.
Returned(c, v) ==
    [c EXCEPT !.pc = "returned", !.resolved = @ + 1, !.value = v,
              !.result = ReturnValue(c.fn, c.key, v)]

\* Mutant: the result is kept but the return is missing, so the loop goes on.
RetryResolve_NoReturn(v) ==
    /\ call.pc = "pending"
    /\ call.fn = "queryWithRetry" => v \in QueryResults
    /\ call.fn # "queryWithRetry" => v = call.key
    /\ call.fn = "downloadResume" => call.key \in bucket
    /\ call' = EnterLoop([call EXCEPT
                             !.resolved = @ + 1,
                             !.value = v,
                             !.result = ReturnValue(call.fn, call.key, v)],
                         call.attempt + 1)
    /\ bucket' = BucketAfter(call.fn, call.key)
    /\ UNCHANGED <<storageVars, authVars, guardVars>>

\* The underlying call resolves with value v and the function returns.
RetryResolve(v) ==
    /\ call.pc = "pending"
    /\ call.fn = "queryWithRetry" => v \in QueryResults
    /\ call.fn # "queryWithRetry" => v = call.key
    /\ call.fn = "downloadResume" => call.key \in bucket
    /\ call' = Returned(call, v)
    /\ bucket' = BucketAfter(call.fn, call.key)
    /\ UNCHANGED <<storageVars, authVars, guardVars>>

\* The underlying call rejects with `cause`: logger.error(err); after the
\* last attempt the loop is left and the function throws, otherwise it
\* starts the delay.  A PutObjectCommand can reject although S3 has stored
\* the object (the response was lost).
RetryReject(cause) ==
    /\ call.pc = "pending"
    /\ LET caught == [call EXCEPT !.failures = @ + 1,
                                  !.causes = Append(@, cause),
                                  !.logged = Append(@, cause)]
       IN call' = IF IsLastAttempt(call.attempt, call.attempts)
                  THEN [caught EXCEPT !.pc = "thrown",
                                      !.error = ThrownError(call.fn, cause)]
                  ELSE [caught EXCEPT !.pc = "waiting", !.waits = @ + 1]
    /\ \E landed \in BOOLEAN :
          bucket' = IF landed /\ call.fn = "uploadResume"
                    THEN bucket \cup {call.key}
                    ELSE bucket
    /\ UNCHANGED <<storageVars, authVars, guardVars>>

\* Mutant: the object key is drawn inside the loop, anew for each attempt.
RetryTimer_NewKey ==
    /\ call.pc = "waiting"
    /\ \E key \in Keys :
          /\ call.fn = "uploadResume" => key \notin bucket \cup {call.key}
          /\ call.fn # "uploadResume" => key = call.key
          /\ call' = EnterLoop([call EXCEPT
                                   !.key = IF call.fn = "uploadResume"
                                           THEN key ELSE @,
                                   !.objectKey =
                                       IF call.fn = "uploadResume"
                                       THEN ObjectKeyOf(key) ELSE @],
                               call.attempt + 1)
    /\ UNCHANGED <<bucket, storageVars, authVars, guardVars>>

\* The delay is over: attempt++ and the loop goes round.
RetryTimer ==
    /\ call.pc = "waiting"
    /\ call' = EnterLoop(call, call.attempt + 1)
    /\ UNCHANGED <<bucket, storageVars, authVars, guardVars>>

NextRetry ==
    \/ \E fn \in RetryFns, attempts \in 0..MaxAttempts, key \in {0} \cup Keys :
          RetryCall(fn, attempts, key)
    \/ \E v \in QueryResults \cup Keys : RetryResolve(v)
    \/ \E cause \in Causes : RetryReject(cause)
    \/ RetryTimer

SpecRetry == Init /\ [][NextRetry]_vars

----------------------------------------------------------------------------
(* emptyBucket of services/s3.js *)

\* The values of process.env.NODE_ENV.
Environments == {"test", "development", "production", "undefined"}

\* Mutant: only production is refused.
OutsideTesting_ProductionOnly(env) == env = "production"

\* process.env.NODE_ENV !== 'test'
OutsideTesting(env) == env # "test"

\* Mutant: the listing is continued until every key has been listed.
ListObjectsV2_AllPages(keys) == keys

\* The Contents of the response to one ListObjectsV2Command without a
\* continuation token: the first page of the keys, in key order.
ListObjectsV2(keys) ==
    {k \in keys : Cardinality({j \in keys : j < k}) < PageSize}

\* Mutant: when a listing is at hand the next attempt sends its delete again
\* instead of listing anew.
EnterSweepLoop_ResumesDelete(s, attempt) ==
    IF ~LoopCondition(attempt, s.attempts)
    THEN [s EXCEPT !.attempt = attempt, !.pc = "thrown",
                   !.error = "Empty bucket failed after all attempts"]
    ELSE IF s.listed # {}
    THEN [s EXCEPT !.attempt = attempt, !.pc = "deleting", !.deletes = @ + 1]
    ELSE [s EXCEPT !.attempt = attempt, !.pc = "listing", !.lists = @ + 1]

\* Enter the for loop of emptyBucket with loop variable `attempt`: send the
\* list command while the loop condition holds, else fall through to the
\* throw.
EnterSweepLoop(s, attempt) ==
    IF LoopCondition(attempt, s.attempts)
    THEN [s EXCEPT !.attempt = attempt, !.pc = "listing", !.lists = @ + 1,
                   !.listed = {}]
    ELSE [s EXCEPT !.attempt = attempt, !.pc = "thrown",
                   !.error = "Empty bucket failed after all attempts"]

\* emptyBucket(attempts) is called while NODE_ENV is env.
EmptyBucketCall(env, attempts) ==
    /\ sweep.pc \in {"idle", "returned", "thrown"}
    /\ sweep' = IF OutsideTesting(env)
                THEN [NoSweep EXCEPT
                         !.env = env, !.attempts = attempts, !.pc = "thrown",
                         !.error = "Cannot empty bucket outside of testing"]
                ELSE EnterSweepLoop([NoSweep EXCEPT !.env = env,
                                                    !.attempts = attempts],
                                    0)
    /\ UNCHANGED <<call, bucket, resumeVars, authVars, guardVars>>

\* The list command resolves: with no Contents the function returns, else
\* it sends one DeleteObjectsCommand naming the listed keys.
ListResolve ==
    /\ sweep.pc = "listing"
    /\ LET listedObjects == ListObjectsV2(bucket)
       IN sweep' = IF listedObjects = {}
                   THEN [sweep EXCEPT !.pc = "returned", !.held = bucket]
                   ELSE [sweep EXCEPT !.pc = "deleting",
                                      !.listed = listedObjects,
                                      !.held = bucket,
                                      !.deletes = @ + 1]
    /\ UNCHANGED <<call, bucket, resumeVars, authVars, guardVars>>

\* The delete command resolves: the named keys are gone and the function
\* returns.
DeleteObjectsResolve ==
    /\ sweep.pc = "deleting"
    /\ bucket' = bucket \ sweep.listed
    /\ sweep' = [sweep EXCEPT !.pc = "returned"]
    /\ UNCHANGED <<call, resumeVars, authVars, guardVars>>

\* The list or the delete command rejects: logger.error(err); after the
\* last attempt the loop is left and the function throws, otherwise it
\* starts the delay.
SweepReject ==
    /\ sweep.pc \in {"listing", "deleting"}
    /\ LET caught == [sweep EXCEPT !.failures = @ + 1,
                                   !.failedAt = Append(@, sweep.pc)]
       IN sweep' = IF IsLastAttempt(sweep.attempt, sweep.attempts)
                   THEN [caught EXCEPT
                            !.pc = "thrown",
                            !.error = "Empty bucket failed after all attempts"]
                   ELSE [caught EXCEPT !.pc = "waiting", !.waits = @ + 1]
    /\ UNCHANGED <<call, bucket, resumeVars, authVars, guardVars>>

\* Mutant: after the delay the loop starts over from attempt 0.
SweepTimer_StartsOver ==
    /\ sweep.pc = "waiting"
    /\ sweep' = EnterSweepLoop(sweep, 0)
    /\ UNCHANGED <<call, bucket, resumeVars, authVars, guardVars>>

\* The delay is over: attempt++ and the loop goes round.
SweepTimer ==
    /\ sweep.pc = "waiting"
    /\ sweep' = EnterSweepLoop(sweep, sweep.attempt + 1)
    /\ UNCHANGED <<call, bucket, resumeVars, authVars, guardVars>>

\* Another caller's PutObjectCommand resolves: the bucket has one more key.
PutObject(key) ==
    /\ key \notin bucket
    /\ bucket' = bucket \cup {key}
    /\ UNCHANGED <<call, sweep, resumeVars, authVars, guardVars>>

NextBucket ==
    \/ \E env \in Environments, attempts \in 0..MaxAttempts :
          EmptyBucketCall(env, attempts)
    \/ ListResolve
    \/ DeleteObjectsResolve
    \/ SweepReject
    \/ SweepTimer
    \/ \E key \in Keys : PutObject(key)

SpecBucket == Init /\ [][NextBucket]_vars

----------------------------------------------------------------------------
(* The retry loops under fair scheduling *)

\* The promise of the underlying call settles: pool.query or client.send
\* resolves or rejects.
Settles ==
    \/ \E v \in QueryResults \cup Keys : RetryResolve(v)
    \/ \E cause \in Causes : RetryReject(cause)

\* The promise of the list or delete command of emptyBucket settles.
SweepSettles == ListResolve \/ DeleteObjectsResolve \/ SweepReject

\* The loops share no variable and none reads what another wrote: a run
\* follows the calls of the four retrying functions, or those of
\* emptyBucket among the uploads of other callers.
NextRetryLive ==
    \/ sweep = NoSweep /\ NextRetry
    \/ call = NoCall /\ NextBucket

\* Every underlying call settles in the end, and a timer that was set
\* fires.
SpecRetryLive ==
    /\ Init
    /\ [][NextRetryLive]_vars
    /\ WF_vars(Settles)
    /\ WF_vars(RetryTimer)
    /\ WF_vars(SweepSettles)
    /\ WF_vars(SweepTimer)

----------------------------------------------------------------------------
(* createTokens (utils/createTokens.js), called with any arguments *)

\* What the token specifications leave alone.
sessionVars == <<refresh_tokens, nextRowId, started, reqs, last, rotatedOk,
                 revokedOk>>

\* Arguments a caller can pass for id, username and isAdmin.
IdArguments == {JsNumber(1), JsNumber(2), JsString("1"), JsUndefined, JsNull}
UsernameArguments ==
    {JsString("admin"), JsString("alice"), JsNumber(1), JsUndefined, JsNull}
IsAdminArguments ==
    {JsBoolean(TRUE), JsBoolean(FALSE), JsString("true"), JsUndefined, JsNull}

\* Mutant: the type of isAdmin is not checked.
InvalidArguments_IsAdminUnchecked(id, username, isAdmin) ==
    \/ id.type # "number"
    \/ username.type # "string"

\* typeof id !== 'number' || typeof username !== 'string' ||
\* typeof isAdmin !== 'boolean'
InvalidArguments(id, username, isAdmin) ==
    \/ id.type # "number"
    \/ username.type # "string"
    \/ isAdmin.type # "boolean"

\* createTokens is entered: it checks its arguments and throws, or goes on
\* to build the payload.
CreateTokensCall(id, username, isAdmin) ==
    /\ tokenCall.pc \in {"idle", "returned", "thrown"}
    /\ randomCount < MaxMinted + 1
    /\ LET entered == [NoTokenCall EXCEPT !.id = id,
                                          !.username = username,
                                          !.isAdmin = isAdmin,
                                          !.randomAtEntry = randomCount]
       IN tokenCall' = IF InvalidArguments(id, username, isAdmin)
                       THEN [entered EXCEPT !.pc = "thrown",
                                            !.error = "Invalid arguments"]
                       ELSE [entered EXCEPT !.pc = "sign"]
    /\ UNCHANGED <<now, randomCount, sessionVars, retryVars, guard, minted>>

\* const accessToken = jwt.sign(payload, process.env.JWT_SECRET, ...)
CreateTokensSign ==
    /\ tokenCall.pc = "sign"
    /\ tokenCall' = [tokenCall EXCEPT !.pc = "random", !.signed = @ + 1,
                                      !.signedAt = now]
    /\ UNCHANGED <<now, randomCount, sessionVars, retryVars, guard, minted>>

\* crypto.randomBytes, hash, and the return of the three values.
CreateTokensReturn ==
    /\ tokenCall.pc = "random"
    /\ tokenCall' = [tokenCall EXCEPT
                        !.pc = "returned",
                        !.result = createTokens(tokenCall.id.num,
                                                tokenCall.username.str,
                                                tokenCall.isAdmin.bool,
                                                randomCount,
                                                tokenCall.signedAt)]
    /\ randomCount' = randomCount + 1
    /\ UNCHANGED <<now, sessionVars, retryVars, guard, minted>>

\* A minute passes.
TickMinute ==
    /\ now < MaxMinutes
    /\ now' = now + 1
    /\ UNCHANGED <<randomCount, sessionVars, retryVars, guardVars>>

NextTokens ==
    \/ \E id \in IdArguments, username \in UsernameArguments,
          isAdmin \in IsAdminArguments :
          CreateTokensCall(id, username, isAdmin)
    \/ CreateTokensSign
    \/ CreateTokensReturn
    \/ TickMinute

SpecTokens == Init /\ [][NextTokens]_vars

----------------------------------------------------------------------------
(* The middleware of src/app.js: authenticate, authorize *)

\* The routes of the API that read or change jobs, applications and resumes
\* on behalf of an administrator, and the public list of jobs.
Routes ==
    {"GET /api/resumes/:id", "POST /api/jobs", "DELETE /api/jobs/:id",
     "GET /api/jobs/:id/applications", "GET /api/applications/:id",
     "DELETE /api/applications/:id", "GET /api/jobs"}

\* Mutant: the two middleware are registered in the other order.
Middleware_AuthorizeFirst(route) ==
    IF route = "GET /api/resumes/:id"
    THEN <<"authorize", "authenticate">>
    ELSE <<>>

\* The middleware app.get / app.post / app.delete registers before the
\* handler of the route.
Middleware(route) ==
    IF route = "GET /api/resumes/:id"
    THEN <<"authenticate", "authorize">>
    ELSE <<>>

\* The statuses the handler of a route answers with.
HandlerStatuses(route) ==
    CASE route = "GET /api/resumes/:id" -> {200, 400, 404, 500}
      [] route = "POST /api/jobs" -> {201, 400, 422, 500}
      [] route = "DELETE /api/jobs/:id" -> {204, 400, 404, 500}
      [] route = "GET /api/jobs/:id/applications" -> {200, 400, 404, 500}
      [] route = "GET /api/applications/:id" -> {200, 400, 404, 500}
      [] route = "DELETE /api/applications/:id" -> {204, 400, 404, 500}
      [] OTHER -> {200, 500}

\* The (id, username, isAdmin) createTokens is called with: the rows of
\* users, and an administrator that is not one of them.
Identities ==
    {[id |-> u.id, username |-> u.username, isAdmin |-> u.is_admin] :
        u \in users} \cup {[id |-> 7, username |-> "", isAdmin |-> TRUE]}

\* createTokens(id, username, isAdmin) returns to a caller that hands the
\* access token to the client, which keeps it in place of the one it had.
MintToken(identity) ==
    /\ randomCount < MaxMinted
    /\ LET tokens == createTokens(identity.id, identity.username,
                                  identity.isAdmin, randomCount, now)
       IN minted' = {[token |-> tokens.accessToken, identity |-> identity,
                      refreshToken |-> tokens.refreshToken]}
    /\ randomCount' = randomCount + 1
    /\ UNCHANGED <<now, sessionVars, retryVars, guard, tokenCall>>

\* A token with administrator claims that was not signed with JWT_SECRET.
ForgedToken(t) == JwtSignWith(OtherKey, 1, "admin", TRUE, t, EXPIRES_IN)

\* The Authorization headers a client sends: none, the scheme without a
\* token, or a bearer token it was given or made up.
AuthorizationHeaders ==
    {[header |-> "none", token |-> NoAccessToken],
     [header |-> "Bearer", token |-> NoAccessToken]}
        \cup {[header |-> "Bearer token", token |-> t] :
                 t \in {m.token : m \in minted} \cup {ForgedToken(now)}}

\* A request arrives on a route: express runs the middleware of the route
\* and then its handler.
Request(route, authorization) ==
    /\ guard.pc \in {"idle", "done"}
    /\ LET chain == Middleware(route) \o <<"handler">>
       IN guard' = [NoGuard EXCEPT !.route = route,
                                   !.header = authorization.header,
                                   !.token = authorization.token,
                                   !.chain = chain,
                                   !.pc = Head(chain)]
    /\ UNCHANGED <<now, randomCount, sessionVars, retryVars, tokenCall,
                   minted>>

\* return next(): the next function of the chain runs.
PassOn(g, fn) ==
    [g EXCEPT !.chain = Tail(@), !.pc = Head(Tail(g.chain)),
              !.trace = Append(@, fn)]

\* return res.status(status).json({ error }): the chain ends here.
Reject(g, fn, status, error) ==
    [g EXCEPT !.pc = "done", !.status = status, !.error = error,
              !.trace = Append(@, fn)]

\* Mutant: a token is still accepted at the instant of its expiry.
JwtVerify_ExpiryExclusive(token, key, t) ==
    IF token.key # key
    THEN [error |-> "JsonWebTokenError", payload |-> NoAccessToken]
    ELSE IF t > token.exp
    THEN [error |-> "TokenExpiredError", payload |-> NoAccessToken]
    ELSE [error |-> "", payload |-> token]

\* jwt.verify(token, key) at time t: the signature is checked first, then
\* the expiry (clockTimestamp >= payload.exp).
JwtVerify(token, key, t) ==
    IF token.key # key
    THEN [error |-> "JsonWebTokenError", payload |-> NoAccessToken]
    ELSE IF t >= token.exp
    THEN [error |-> "TokenExpiredError", payload |-> NoAccessToken]
    ELSE [error |-> "", payload |-> token]

\* Mutant: authenticate also looks for a session record of the user.
Authenticate_ChecksSession ==
    /\ guard.pc = "authenticate"
    /\ guard' =
          IF guard.header # "Bearer token"
          THEN Reject(guard, "authenticate", 401, "Access token is required")
          ELSE LET verified == JwtVerify(guard.token, JWT_SECRET, now)
               IN IF verified.error = ""
                  THEN IF \E row \in refresh_tokens :
                             /\ row.user_id = verified.payload.sub
                             /\ row.expires_at >= RotatedExpiresAt(
                                                      verified.payload.iat)
                             /\ row.id \in 1..(nextRowId - 1)
                             /\ \E m \in minted :
                                   /\ m.token = guard.token
                                   /\ row.refresh_token_hash
                                         = hash(m.refreshToken)
                       THEN [PassOn(guard, "authenticate")
                                EXCEPT !.user = verified.payload]
                       ELSE Reject(guard, "authenticate", 401,
                                   "Invalid access token ")
                  ELSE IF verified.error = "TokenExpiredError"
                  THEN Reject(guard, "authenticate", 401,
                              "Access token has expired ")
                  ELSE Reject(guard, "authenticate", 401,
                              "Invalid access token ")
    /\ UNCHANGED <<now, randomCount, sessionVars, retryVars, tokenCall,
                   minted>>

\* function authenticate(req, res, next)
Authenticate ==
    /\ guard.pc = "authenticate"
    /\ guard' =
          IF guard.header # "Bearer token"
          THEN Reject(guard, "authenticate", 401, "Access token is required")
          ELSE LET verified == JwtVerify(guard.token, JWT_SECRET, now)
               IN IF verified.error = ""
                  THEN [PassOn(guard, "authenticate")
                           EXCEPT !.user = verified.payload]
                  ELSE IF verified.error = "TokenExpiredError"
                  THEN Reject(guard, "authenticate", 401,
                              "Access token has expired ")
                  ELSE Reject(guard, "authenticate", 401,
                              "Invalid access token ")
    /\ UNCHANGED <<now, randomCount, sessionVars, retryVars, tokenCall,
                   minted>>

\* function authorize(req, res, next)
Authorize ==
    /\ guard.pc = "authorize"
    /\ guard' = IF guard.user = NoAccessToken \/ ~guard.user.isAdmin
                THEN Reject(guard, "authorize", 403,
                            "Forbidden: Admins only")
                ELSE PassOn(guard, "authorize")
    /\ UNCHANGED <<now, randomCount, sessionVars, retryVars, tokenCall,
                   minted>>

\* The handler of the route runs, with its queries and its S3 calls, and
\* answers.
Handler(status) ==
    /\ guard.pc = "handler"
    /\ status \in HandlerStatuses(guard.route)
    /\ guard' = [guard EXCEPT !.pc = "done", !.status = status,
                              !.trace = Append(@, "handler")]
    /\ UNCHANGED <<now, randomCount, sessionVars, retryVars, tokenCall,
                   minted>>

NextGuard ==
    \/ \E identity \in Identities : MintToken(identity)
    \/ \E route \in Routes, authorization \in AuthorizationHeaders :
          Request(route, authorization)
    \/ Authenticate
    \/ Authorize
    \/ \E status \in {200, 201, 204, 400, 404, 422, 500} : Handler(status)
    \/ TickMinute

SpecGuard == Init /\ [][NextGuard]_vars

----------------------------------------------------------------------------
(* Access tokens and the sessions they were issued with *)

\* What the steps of a session leave alone in this part.
requestVars == <<started, reqs, last, rotatedOk, revokedOk>>

\* authenticate and authorize are synchronous and run in the turn of the
\* event loop in which the request arrives: no query of another request
\* resolves between them.
BetweenTurns == guard.pc \notin {"authenticate", "authorize"}

\* POST /api/auth/login succeeds for a user: createTokens, the INSERT, and
\* the client keeps the access token and the refresh token of the answer.
SessionLogin(userData) ==
    /\ BetweenTurns
    /\ randomCount < MaxMinted
    /\ LET tokens == createTokens(userData.id, userData.username,
                                  userData.is_admin, randomCount, now)
           req == [IdleRequest EXCEPT
                      !.userId = userData.id,
                      !.newRefreshTokenHash = tokens.refreshTokenHash,
                      !.expiresAt = ExpiresAt(now)]
       IN /\ refresh_tokens' =
                 refresh_tokens \cup {InsertedRow(nextRowId, req)}
          /\ minted' = {[token |-> tokens.accessToken,
                         identity |-> [id |-> userData.id,
                                       username |-> userData.username,
                                       isAdmin |-> userData.is_admin],
                         refreshToken |-> tokens.refreshToken]}
    /\ nextRowId' = nextRowId + 1
    /\ randomCount' = randomCount + 1
    /\ UNCHANGED <<now, requestVars, retryVars, guard, tokenCall>>

\* POST /api/auth/logout with the refresh token of the session: the DELETE
\* resolves.  The access token stays in the client's hands.
SessionLogout ==
    /\ BetweenTurns
    /\ \E m \in minted :
          refresh_tokens' = DeleteWhereHash(refresh_tokens,
                                            hash(m.refreshToken))
    /\ UNCHANGED <<now, nextRowId, randomCount, requestVars, retryVars,
                   guardVars>>

\* POST /api/auth/refresh with the refresh token of the session succeeds:
\* the record is looked up, createTokens, and the UPDATE resolves.  The
\* client goes on presenting the access token it had.
SessionRotate ==
    /\ BetweenTurns
    /\ \E m \in minted :
          LET rows == SelectWhereHash(refresh_tokens, hash(m.refreshToken))
              tokens == createTokens(m.identity.id, m.identity.username,
                                     m.identity.isAdmin, randomCount, now)
          IN /\ ~NoMatchOrExpired(rows, now)
             /\ refresh_tokens' = UpdateWhereHash(refresh_tokens,
                                                  tokens.refreshTokenHash,
                                                  RotatedExpiresAt(now),
                                                  hash(m.refreshToken))
    /\ randomCount' = randomCount + 1
    /\ UNCHANGED <<now, nextRowId, requestVars, retryVars, guardVars>>

NextSession ==
    \/ \E userData \in users : SessionLogin(userData)
    \/ SessionLogout
    \/ SessionRotate
    \/ \E route \in {r \in Routes : Middleware(r) # <<>>},
          authorization \in AuthorizationHeaders :
          Request(route, authorization)
    \/ Authenticate
    \/ Authorize
    \/ \E status \in {200, 201, 204, 400, 404, 422, 500} : Handler(status)
    \/ TickMinute

SpecSession == Init /\ [][NextSession]_vars

----------------------------------------------------------------------------
(* Properties of the session lifecycle (checked under Spec) *)

\* The step in which handler r sends a response with this status.
Answers(r, status) ==
    /\ reqs[r].pc # "idle"
    /\ reqs'[r].pc = "idle"
    /\ last'.res.status = status

\* The step in which handler r sends any response.
Completes(r) == reqs[r].pc # "idle" /\ reqs'[r].pc = "idle"

\* The step in which a request of this route is taken up and answered at
\* once: validation rejects it, or its first query settles it.
AnsweredAtOnce(kind) ==
    /\ started' = started + 1
    /\ reqs' = reqs
    /\ last'.kind = kind

\* The step in which a request of this route is taken up by handler r and
\* gets past its first query.
GoesOn(r, kind) ==
    /\ started' = started + 1
    /\ reqs[r].pc = "idle"
    /\ reqs'[r].pc # "idle"
    /\ reqs'[r].kind = kind

\* A refreshToken that passes the validation of logout and refresh.
WellFormed(refreshToken) ==
    refreshToken \notin {MissingBody, Undefined, NonString, FalsyNonString}

\* A record of refresh_tokens stores the hash of refresh token t.
HasRecord(table, t) == SelectWhereHash(table, hash(t)) # {}

\* The refresh tokens createTokens has issued so far.
IssuedTokens == 1..randomCount

\* C1: of the refresh requests that present the same refresh token, at most
\* one answers 200: no refresh(t) answers 200 once a refresh(t) has
\* answered 200, in any interleaving of their database steps.
C1_OnlyFirstRotationSucceeds ==
    [][\A r \in Slots :
          (reqs[r].kind = "refresh" /\ Answers(r, 200))
              => reqs[r].refreshToken \notin rotatedOk]_vars

\* C2: whenever a refresh answers 200 with a new refresh token t2, the
\* refresh_tokens table holds, at that moment, a record whose
\* refresh_token_hash is hash(t2).
C2_NewHashPersistedBeforeReturn ==
    [][\A r \in Slots :
          (reqs[r].kind = "refresh" /\ Answers(r, 200))
              => HasRecord(refresh_tokens', last'.res.refreshToken)]_vars

\* C3: a refresh(t) that answers 200 returns a refresh token different from
\* t, and from then on no record has hash(t): a refresh(t) whose lookup is
\* made after that never gets past the lookup and is answered 401 (500 when
\* the lookup query itself fails on all its attempts).
C3_RotatedTokenRejected ==
    [][/\ \A t \in rotatedOk' : ~HasRecord(refresh_tokens', t)
       /\ \A r \in Slots :
             /\ (reqs[r].kind = "refresh" /\ Answers(r, 200))
                   => last'.res.refreshToken # reqs[r].refreshToken
             /\ GoesOn(r, "refresh")
                   => reqs'[r].refreshToken \notin rotatedOk
       /\ (AnsweredAtOnce("refresh") /\ last'.refreshToken \in rotatedOk)
             => last'.res.status \in {401, 500}
      ]_vars

\* C3 witness: a refresh with a token that an earlier refresh had already
\* rotated has been answered 401.
C3_Witness ==
    /\ last.kind = "refresh"
    /\ last.res.status = 401
    /\ last.wasRotated
    /\ last.refreshToken \in IssuedTokens

\* C4: every stored refresh_token_hash is hash(t) of an issued refresh token
\* t and is not itself a raw token; the values the handlers bind to the
\* refresh_token_hash column of the INSERT and of the UPDATE (SET and WHERE)
\* are hashes; the raw token only appears in a 200 response.
C4_OnlyHashesStored ==
    /\ \A row \in refresh_tokens :
          /\ \E t \in IssuedTokens : row.refresh_token_hash = hash(t)
          /\ row.refresh_token_hash \notin IssuedTokens
    /\ \A r \in Slots :
          /\ reqs[r].pc \in {"loginInsert", "refreshUpdate"}
                => /\ reqs[r].newRefreshToken \in IssuedTokens
                   /\ reqs[r].newRefreshTokenHash
                          = hash(reqs[r].newRefreshToken)
                   /\ reqs[r].newRefreshTokenHash # reqs[r].newRefreshToken
          /\ reqs[r].pc \in {"refreshUser", "refreshUpdate"}
                => /\ reqs[r].refreshTokenHash = hash(reqs[r].refreshToken)
                   /\ reqs[r].refreshTokenHash # reqs[r].refreshToken
    /\ last.res.status = 200 => last.res.refreshToken \in IssuedTokens

\* C4 witness: the table holds a record written by a login and one rewritten
\* by a refresh, and the last response carried a raw token.
C4_Witness ==
    /\ rotatedOk # {}
    /\ Cardinality(refresh_tokens) >= 2
    /\ last.res.status = 200

\* C7: a logout with a well-formed refresh token answers 204 whenever its
\* DELETE resolves, whether or not a record matched (its only other answer
\* is 500, when the DELETE fails on all its attempts); after a 204 no record
\* has hash(token); and a logout repeated with a token that an earlier
\* logout already revoked answers 204 again and leaves the table unchanged.
C7_RevokeIdempotent ==
    [][(AnsweredAtOnce("logout") /\ WellFormed(last'.refreshToken))
          => /\ last'.res.status \in {204, 500}
             /\ last'.res.status = 500 => UNCHANGED refresh_tokens
             /\ last'.res.status = 204
                   => /\ ~HasRecord(refresh_tokens', last'.refreshToken)
                      /\ refresh_tokens' \subseteq refresh_tokens
                      /\ \A row \in refresh_tokens :
                            row.refresh_token_hash
                                # hash(last'.refreshToken)
                                => row \in refresh_tokens'
             /\ (last'.res.status = 204
                   /\ last'.refreshToken \in revokedOk)
                   => UNCHANGED refresh_tokens]_vars

\* C7 witness: a second logout with an already revoked, once live token has
\* been answered 204.
C7_Witness ==
    /\ last.kind = "logout"
    /\ last.res.status = 204
    /\ last.wasRevoked
    /\ last.refreshToken \in IssuedTokens

\* C8: once a logout(t) has answered 204, no record with hash(t) exists at
\* any later time, and a refresh(t) whose lookup is made after that never
\* gets past the lookup: it is answered 401 (500 when the lookup query
\* itself fails on all its attempts).
C8_RevokedTokenRejected ==
    [][/\ \A t \in revokedOk' : ~HasRecord(refresh_tokens', t)
       /\ \A r \in Slots :
             GoesOn(r, "refresh") => reqs'[r].refreshToken \notin revokedOk
       /\ (AnsweredAtOnce("refresh") /\ last'.refreshToken \in revokedOk)
             => last'.res.status \in {401, 500}
      ]_vars

\* C8 witness: a refresh with a token that a logout had revoked has been
\* answered 401.
C8_Witness ==
    /\ last.kind = "refresh"
    /\ last.res.status = 401
    /\ last.wasRevoked
    /\ ~last.wasRotated
    /\ last.refreshToken \in IssuedTokens

\* A record with hash(t) exists and has not expired at time `at`.
LiveRecord(table, t, at) ==
    \E row \in SelectWhereHash(table, hash(t)) : row.expires_at >= at

\* C9: when the lookup of a refresh(t) resolves, the request is rejected
\* exactly when no record has hash(t) or the record has expires_at < now (a
\* record with expires_at >= now is accepted); both rejections are the
\* response 401 'Invalid refresh token', which carries no tokens, and leave
\* the table and the token generator untouched; a refresh answers 401
\* nowhere else.
C9_RejectedIffUnknownOrExpired ==
    [][/\ (AnsweredAtOnce("refresh") /\ last'.res.status = 401)
             => /\ ~LiveRecord(refresh_tokens, last'.refreshToken, now)
                /\ last'.res = ErrorResponse(401, "Invalid refresh token")
       /\ \A r \in Slots :
             GoesOn(r, "refresh")
                => LiveRecord(refresh_tokens, reqs'[r].refreshToken, now)
       /\ (AnsweredAtOnce("refresh") /\ WellFormed(last'.refreshToken))
             => last'.res.status \in {401, 500}
       /\ AnsweredAtOnce("refresh")
             => /\ last'.res.accessToken = NoAccessToken
                /\ last'.res.refreshToken = NoToken
                /\ UNCHANGED <<refresh_tokens, randomCount>>
       /\ \A r \in Slots :
             (reqs[r].kind = "refresh" /\ Completes(r))
                => last'.res.status # 401]_vars

\* C9 witness: a refresh has been answered 401 for a token whose record is
\* in the table and has expired; the record is still there.
C9_Witness ==
    /\ last.kind = "refresh"
    /\ last.res.status = 401
    /\ HasRecord(refresh_tokens, last.refreshToken)
    /\ ~LiveRecord(refresh_tokens, last.refreshToken, now)

\* The identity that the credentials of a login body authenticate.
Authenticated(username, password) ==
    {u \in users : u.username = username
                     /\ BcryptCompare(password, u.pwd_hash)}

\* C10: a login answers 200 only in the step in which its INSERT resolves;
\* the response carries both tokens and the table then holds a new record
\* with the user_id of the authenticated identity, refresh_token_hash =
\* hash(refreshToken) and expires_at = the instant the tokens were created +
\* 30 days.  A login whose SELECT or INSERT fails on all its attempts ends
\* with the 500 of the error handler: for a valid body the SELECT ends in
\* 401 or 500 or goes on to the INSERT, the INSERT ends in 200 or 500; a
\* response other than 200 carries no tokens and adds no record.
C10_LoginPersistsBeforeReturn ==
    [][/\ \A r \in Slots :
             (reqs[r].kind = "login" /\ Completes(r))
                 => /\ last'.res.status \in {200, 500}
                    /\ Answers(r, 200)
                       => /\ last'.res.accessToken # NoAccessToken
                          /\ last'.res.refreshToken \in IssuedTokens
                          /\ \E row \in refresh_tokens' \ refresh_tokens :
                                /\ \E u \in Authenticated(reqs[r].username,
                                                          reqs[r].password) :
                                      /\ row.user_id = u.id
                                      /\ last'.res.accessToken.sub = u.id
                                /\ row.refresh_token_hash
                                       = hash(last'.res.refreshToken)
                                /\ row.expires_at
                                       = last'.res.accessToken.iat
                                            + REFRESH_TOKEN_EXPIRY
                    /\ Answers(r, 500)
                       => /\ last'.res = InternalError
                          /\ UNCHANGED refresh_tokens
       /\ AnsweredAtOnce("login")
             => /\ last'.res.status # 200
                /\ last'.res.accessToken = NoAccessToken
                /\ last'.res.refreshToken = NoToken
                /\ UNCHANGED refresh_tokens
                /\ last'.res.status = 500 => last'.res = InternalError
                /\ LoginValidation(last'.username, last'.password)
                       = NoResponse
                       => last'.res.status \in {401, 500}
       /\ \A r \in Slots :
             GoesOn(r, "login")
                => /\ Authenticated(reqs'[r].username,
                                    reqs'[r].password) # {}
                   /\ UNCHANGED <<refresh_tokens, last>>]_vars

\* C10 witness: a login of the ordinary user has been answered 200 and her
\* record is in the table.
C10_Witness ==
    /\ last.kind = "login"
    /\ last.res.status = 200
    /\ \E row \in refresh_tokens :
          /\ row.user_id = 2
          /\ row.refresh_token_hash = hash(last.res.refreshToken)

\* The usernames of table users.
KnownUsernames == {u.username : u \in users}

\* C11: a login with a well-formed body that authenticates nobody, whether
\* its username is unknown or its password is wrong, is answered at once
\* with the one response 401 'Invalid credentials' (500 when the SELECT
\* fails on all its attempts), which carries no tokens; the step creates no
\* token and inserts no record; a login answers 401 in no other case and
\* with no other body.
C11_UniformInvalidCredentials ==
    [][/\ (AnsweredAtOnce("login")
              /\ LoginValidation(last'.username, last'.password) = NoResponse
              /\ Authenticated(last'.username, last'.password) = {})
             => /\ last'.res \in {ErrorResponse(401, "Invalid credentials"),
                                  InternalError}
                /\ UNCHANGED <<refresh_tokens, randomCount, nextRowId>>
       /\ (AnsweredAtOnce("login") /\ last'.res.status = 401)
             => /\ last'.res = ErrorResponse(401, "Invalid credentials")
                /\ Authenticated(last'.username, last'.password) = {}
       /\ \A r \in Slots :
             /\ GoesOn(r, "login")
                   => Authenticated(reqs'[r].username,
                                    reqs'[r].password) # {}
             /\ (reqs[r].kind = "login" /\ Completes(r))
                   => last'.res.status # 401]_vars

\* C11 witness: a login with a known username and a wrong password has been
\* answered 401.
C11_Witness ==
    /\ last.kind = "login"
    /\ last.res = ErrorResponse(401, "Invalid credentials")
    /\ last.username \in KnownUsernames
    /\ Authenticated(last.username, last.password) = {}

\* The body is missing, or a required field is absent or falsy
\* (!req.body, !req.body.username, !refreshToken).
MissingField(request) ==
    IF request.kind = "login"
    THEN \/ request.username
              \in {MissingBodyStr, UndefinedStr, FalsyNonStringStr}
         \/ request.password
              \in {MissingBodyStr, UndefinedStr, FalsyNonStringStr}
    ELSE request.refreshToken \in {MissingBody, Undefined, FalsyNonString}

\* Every required field is there and truthy, and one is not a string.
WrongType(request) ==
    /\ ~MissingField(request)
    /\ IF request.kind = "login"
       THEN NonStringStr \in {request.username, request.password}
       ELSE request.refreshToken = NonString

\* A required field holds a value that is not a string, truthy or not.
NotAString(request) ==
    IF request.kind = "login"
    THEN {request.username, request.password}
             \cap {NonStringStr, FalsyNonStringStr} # {}
    ELSE request.refreshToken \in {NonString, FalsyNonString}

\* C12 as stated: on each of login, logout and refresh, a request with a
\* missing body or a missing required field is answered 400 and a request
\* with a wrongly typed field 422, at once and without a query or a token.
C12_WrongTypeAnswered422 ==
    [][\A kind \in {"login", "logout", "refresh"} :
          AnsweredAtOnce(kind)
             => /\ NotAString(last') => last'.res.status = 422
                /\ (MissingField(last') /\ ~NotAString(last'))
                      => last'.res.status = 400
                /\ (MissingField(last') \/ NotAString(last'))
                      => /\ last'.queries = 0
                         /\ UNCHANGED <<refresh_tokens, randomCount>>]_vars

\* C12 (amended): on each of login, logout and refresh, a request whose body
\* is missing or whose required field is absent or falsy (also 0, false or
\* null) is answered 400 and one with a truthy field that is not a string
\* 422, in the step in which it arrives: it has made no query, it never
\* reaches a query later, and the step creates no token and leaves the table
\* as it was.  A request that passes validation makes at least one query and
\* is answered neither 400 nor 422.
C12_ValidationRejectsWithoutQuery ==
    [][/\ \A kind \in {"login", "logout", "refresh"} :
             AnsweredAtOnce(kind)
                => /\ MissingField(last') => last'.res.status = 400
                   /\ WrongType(last') => last'.res.status = 422
                   /\ (MissingField(last') \/ WrongType(last'))
                         => /\ last'.queries = 0
                            /\ last'.res.accessToken = NoAccessToken
                            /\ last'.res.refreshToken = NoToken
                            /\ UNCHANGED <<refresh_tokens, randomCount,
                                           nextRowId>>
                   /\ ~(MissingField(last') \/ WrongType(last'))
                         => /\ last'.queries >= 1
                            /\ last'.res.status \notin {400, 422}
       /\ \A r \in Slots :
             /\ reqs[r].pc = "idle" /\ reqs'[r].pc # "idle"
                   => /\ ~MissingField(reqs'[r])
                      /\ ~WrongType(reqs'[r])
                      /\ reqs'[r].queries >= 1
             /\ Completes(r) => /\ last'.res.status \notin {400, 422}
                                /\ last'.queries >= 2]_vars

\* C12 witness: with a record in the table, a refresh whose refreshToken is
\* a falsy value that is not a string has been answered 400 without a query.
C12_Witness ==
    /\ last.kind = "refresh"
    /\ last.refreshToken = FalsyNonString
    /\ last.res.status = 400
    /\ last.queries = 0
    /\ refresh_tokens # {}

\* The rows of the table that store the hash of refresh token t.
RecordsOf(table, t) == SelectWhereHash(table, hash(t))

\* C17: the hash a handler holds for a new refresh token is the hash of that
\* token; a record with a new hash is written only in the step that answers
\* 200 with the token t of that hash, so the record that stores hash(t) is
\* the one created for t; distinct tokens have distinct hashes and no two
\* records share one; so the key hash(t) of a later logout or refresh
\* selects at most one record, the one created for t: a logout deletes
\* exactly it, and a refresh that gets past its lookup has read its user_id
\* and rewrites no other record.
C17_LookupKeyMatchesStoredHash ==
    [][/\ \A r \in Slots :
             /\ reqs'[r].pc \in {"loginInsert", "refreshUpdate"}
                   => reqs'[r].newRefreshTokenHash
                          = hash(reqs'[r].newRefreshToken)
             /\ GoesOn(r, "refresh")
                   => /\ reqs'[r].refreshTokenHash
                            = hash(reqs'[r].refreshToken)
                      /\ \E row \in refresh_tokens :
                            /\ RecordsOf(refresh_tokens,
                                         reqs'[r].refreshToken) = {row}
                            /\ reqs'[r].userId = row.user_id
             /\ (reqs[r].kind = "refresh" /\ Answers(r, 200))
                   => \A row \in refresh_tokens :
                         row \notin RecordsOf(refresh_tokens,
                                              reqs[r].refreshToken)
                            => row \in refresh_tokens'
       /\ \A t1, t2 \in IssuedTokens' \cup {BogusToken} :
             hash(t1) = hash(t2) => t1 = t2
       /\ \A t \in IssuedTokens' \cup {BogusToken} :
             Cardinality(RecordsOf(refresh_tokens', t)) <= 1
       /\ \A row \in refresh_tokens' \ refresh_tokens :
             /\ last'.res.status = 200
             /\ row.refresh_token_hash = hash(last'.res.refreshToken)
       /\ (AnsweredAtOnce("logout") /\ last'.res.status = 204)
             => refresh_tokens \ refresh_tokens'
                   = RecordsOf(refresh_tokens, last'.refreshToken)]_vars

\* C17 witness: with two records in the table, a refresh has found the
\* record of its token and the table now stores the hash of the new one.
C17_Witness ==
    /\ last.kind = "refresh"
    /\ last.res.status = 200
    /\ Cardinality(refresh_tokens) >= 2
    /\ RecordsOf(refresh_tokens, last.res.refreshToken) # {}
    /\ RecordsOf(refresh_tokens, last.refreshToken) = {}

----------------------------------------------------------------------------
(* Properties of the middleware and of createTokens *)

\* The routes that register both authenticate and authorize.
GuardedRoutes ==
    {route \in Routes :
        {"authenticate", "authorize"}
            \subseteq {Middleware(route)[i] :
                          i \in 1..Len(Middleware(route))}}

\* The request carries a bearer token signed with JWT_SECRET that has not
\* expired.
PresentsValidToken ==
    /\ guard.header = "Bearer token"
    /\ guard.token.key = JWT_SECRET
    /\ now < guard.token.exp

\* A function of the chain of the request runs in this step.
ChainStep == guard.pc \notin {"idle", "done"} /\ guard' # guard

\* C13: on a route that registers authenticate and authorize, the first
\* function to run is authenticate: without a valid token it answers 401,
\* whatever the claims of the token say, and with one it sets req.user and
\* passes on; the second is authorize: it answers 403 exactly when
\* req.user.isAdmin is not true; the handler runs third, and only for a valid
\* token of an administrator.
C13_AuthenticateThenAuthorize ==
    [][(guard.route \in GuardedRoutes /\ ChainStep)
          => /\ guard.trace = <<>>
                   => /\ guard'.trace = <<"authenticate">>
                      /\ IF PresentsValidToken
                         THEN /\ guard'.pc \notin {"done", "handler"}
                              /\ guard'.user = guard.token
                         ELSE /\ guard'.pc = "done"
                              /\ guard'.status = 401
             /\ guard.trace = <<"authenticate">>
                   => /\ guard'.trace = <<"authenticate", "authorize">>
                      /\ IF guard.user.isAdmin
                         THEN guard'.pc = "handler"
                         ELSE /\ guard'.pc = "done"
                              /\ guard'.status = 403
             /\ guard'.pc = "handler"
                   => /\ guard.trace = <<"authenticate">>
                      /\ guard.user = guard.token
                      /\ guard.token.key = JWT_SECRET
                      /\ guard.token.isAdmin
             /\ Len(guard'.trace) = 3
                   => /\ guard.pc = "handler"
                      /\ guard'.trace
                            = <<"authenticate", "authorize", "handler">>
             /\ Len(guard'.trace) <= 3]_vars

\* C13 witness: on a guarded route, a request with an expired token whose
\* claims say isAdmin = true has been answered 401 before authorize ran.
C13_Witness ==
    /\ guard.pc = "done"
    /\ guard.route \in GuardedRoutes
    /\ guard.status = 401
    /\ guard.token.key = JWT_SECRET
    /\ guard.token.isAdmin
    /\ guard.trace = <<"authenticate">>

\* The routes that are for administrators only.
AdminOnlyRoutes ==
    {"POST /api/jobs", "DELETE /api/jobs/:id",
     "GET /api/jobs/:id/applications", "GET /api/applications/:id",
     "DELETE /api/applications/:id", "GET /api/resumes/:id"}

\* C14: on each administrator-only route, the first function that runs for
\* a request without a bearer token or with an expired one answers 401, and
\* the handler of the route never runs for a request that does not carry a
\* valid token of an administrator (a valid token of another user is
\* answered 403).
C14_AdminRoutesGuarded ==
    [][(guard.route \in AdminOnlyRoutes /\ ChainStep)
          => /\ (guard.trace = <<>>
                    /\ \/ guard.header # "Bearer token"
                       \/ /\ guard.token.key = JWT_SECRET
                          /\ now >= guard.token.exp)
                   => /\ guard'.pc = "done"
                      /\ guard'.status = 401
             /\ (guard.trace = <<"authenticate">> /\ ~guard.user.isAdmin)
                   => /\ guard'.pc = "done"
                      /\ guard'.status = 403
             /\ guard.pc = "handler"
                   => /\ guard.header = "Bearer token"
                      /\ guard.token.key = JWT_SECRET
                      /\ guard.token.isAdmin]_vars

\* C15: the access token createTokens returns for (id, username, isAdmin)
\* carries exactly these claims, is signed with JWT_SECRET and expires
\* EXPIRES_IN after it was issued; presented to authenticate before its
\* expiry it verifies and req.user has sub = id, name = username, isAdmin =
\* isAdmin; from its expiry on it is answered 401 'Access token has
\* expired'; a token with a bad signature is answered 401 'Invalid access
\* token', whether expired or not.
C15_VerifiesUntilExpiry ==
    [][/\ \A m \in minted' :
             /\ m.token.sub = m.identity.id
             /\ m.token.name = m.identity.username
             /\ m.token.isAdmin = m.identity.isAdmin
             /\ m.token.key = JWT_SECRET
             /\ m.token.exp = m.token.iat + EXPIRES_IN
             /\ m.token.iat <= now'
       /\ \A m \in minted' \ minted : m.token.iat = now
       /\ (guard.pc = "authenticate" /\ ChainStep
              /\ guard.header = "Bearer token")
             => /\ \A m \in minted :
                      guard.token = m.token
                         => IF now < m.token.iat + EXPIRES_IN
                            THEN /\ guard'.pc # "done"
                                 /\ guard'.user.sub = m.identity.id
                                 /\ guard'.user.name = m.identity.username
                                 /\ guard'.user.isAdmin = m.identity.isAdmin
                            ELSE /\ guard'.pc = "done"
                                 /\ guard'.status = 401
                                 /\ guard'.error = "Access token has expired "
                /\ guard.token.key # JWT_SECRET
                      => /\ guard'.pc = "done"
                         /\ guard'.status = 401
                         /\ guard'.error = "Invalid access token "]_vars

\* C15 witness: a token createTokens returned has been presented at the
\* instant of its expiry and answered 401 'Access token has expired'.
C15_Witness ==
    /\ guard.pc = "done"
    /\ guard.status = 401
    /\ guard.error = "Access token has expired "
    /\ \E m \in minted : guard.token = m.token /\ now = m.token.exp

\* C16: createTokens throws exactly when id is not a number, username is not
\* a string or isAdmin is not a boolean, with the error 'Invalid arguments';
\* a call that threw has not called jwt.sign, has drawn no random bytes and
\* has returned nothing; a call that returned has done both once.
C16_InvalidArgumentsThrow ==
    tokenCall.pc # "idle"
        => /\ tokenCall.pc = "thrown"
                 <=> \/ tokenCall.id.type # "number"
                     \/ tokenCall.username.type # "string"
                     \/ tokenCall.isAdmin.type # "boolean"
           /\ tokenCall.pc = "thrown"
                 => /\ tokenCall.error = "Invalid arguments"
                    /\ tokenCall.signed = 0
                    /\ randomCount = tokenCall.randomAtEntry
                    /\ tokenCall.result = NoTokens
           /\ tokenCall.pc = "sign"
                 => /\ tokenCall.signed = 0
                    /\ randomCount = tokenCall.randomAtEntry
           /\ tokenCall.pc = "returned"
                 => /\ tokenCall.error = ""
                    /\ tokenCall.signed = 1
                    /\ randomCount = tokenCall.randomAtEntry + 1
                    /\ tokenCall.result.accessToken # NoAccessToken
                    /\ tokenCall.result.refreshToken # NoToken

\* C16 witness: after a call that returned tokens, a call with a number, a
\* string and null for isAdmin has thrown.
C16_Witness ==
    /\ tokenCall.pc = "thrown"
    /\ tokenCall.id.type = "number"
    /\ tokenCall.username.type = "string"
    /\ tokenCall.isAdmin = JsNull
    /\ randomCount >= 1

----------------------------------------------------------------------------
(* Properties of the retry loops (checked under SpecRetry) *)

\* C5: called with attempts >= 1, once the underlying call has resolved the
\* function has returned: it resolved once, after k < attempts failures, the
\* underlying call was invoked exactly k+1 times, and the function returned
\* the success value (the result of pool.query or of GetObject, the object
\* key of an upload, nothing for a delete) and no error.
C5_SuccessAfterKFailures ==
    (call.attempts >= 1 /\ (call.resolved >= 1 \/ call.pc = "returned"))
        => /\ call.pc = "returned"
           /\ call.resolved = 1
           /\ call.failures < call.attempts
           /\ call.invocations = call.failures + 1
           /\ call.result = ReturnValue(call.fn, call.key, call.value)
           /\ call.error = ""

\* C5 witness: a call with three attempts has returned after two failures.
C5_Witness ==
    /\ call.pc = "returned"
    /\ call.attempts = 3
    /\ call.failures = 2
    /\ call.invocations = 3

\* C6: called with attempts >= 1, the function throws exactly when the
\* underlying call has failed attempts times, and it has then invoked the
\* underlying call exactly attempts times; it never invokes it more often.
C6_ThrowsAfterMaxAttempts ==
    call.attempts >= 1
        => /\ call.invocations <= call.attempts
           /\ call.pc = "thrown" <=> call.failures = call.attempts
           /\ call.pc = "thrown"
                 => /\ call.invocations = call.attempts
                    /\ call.resolved = 0
                    /\ call.error = ExhaustedError(call.fn)

\* C6 witness: with the default policy of 3 attempts, a call has thrown
\* after 3 invocations.
C6_Witness ==
    /\ call.pc = "thrown"
    /\ call.attempts = DefaultAttempts
    /\ call.invocations = 3
    /\ call.failures = 3

\* The underlying invocations of the call that have neither resolved nor
\* rejected yet.
InFlight(c) == c.invocations - c.failures - c.resolved

\* C18: within one call of queryWithRetry, uploadResume, downloadResume or
\* deleteResume at most one underlying invocation is in flight; an
\* invocation is issued only when none is in flight and every earlier one of
\* the call has failed, one at a time: attempt i+1 after the failure of
\* attempt i.
C18_AttemptsSequential ==
    [][/\ InFlight(call') \in {0, 1}
       /\ call'.pc = "pending" <=> InFlight(call') = 1
       /\ call'.pc = "pending"
             => /\ call'.failures = call'.attempt
                /\ call'.invocations = call'.attempt + 1
                /\ call'.resolved = 0
       /\ (call.pc = "waiting" /\ call'.invocations # call.invocations)
             => /\ call'.invocations = call.invocations + 1
                /\ InFlight(call) = 0
                /\ call.failures = call.invocations
       /\ call.pc = "pending" => call'.invocations = call.invocations
      ]_vars

\* C18 witness: the third attempt of a download is in flight after the first
\* two have failed.
C18_Witness ==
    /\ call.fn = "downloadResume"
    /\ call.pc = "pending"
    /\ call.attempt = 2
    /\ call.invocations = 3
    /\ call.failures = 2

\* C19: a call of queryWithRetry that has exhausted its attempts has thrown
\* one error, 'Query failed after all attempts', whatever the errors of
\* pool.query were: it is none of them; every error of pool.query has been
\* given to logger.error, in order, by the time the function throws; and a
\* call that has not thrown carries no error.
C19_SingleOpaqueError ==
    call.fn = "queryWithRetry"
        => /\ call.logged = call.causes
           /\ Len(call.causes) = call.failures
           /\ call.pc = "thrown"
                 => /\ call.error = "Query failed after all attempts"
                    /\ call.error \notin Causes
                    /\ call.attempts >= 1
                          => Len(call.logged) = call.attempts
                    /\ call.result = 0
                    /\ call.resolved = 0
           /\ call.pc # "thrown" => call.error = ""

\* C19 witness: queryWithRetry has thrown after three failures that were not
\* all the same error.
C19_Witness ==
    /\ call.fn = "queryWithRetry"
    /\ call.pc = "thrown"
    /\ call.attempts = 3
    /\ Len(call.logged) = 3
    /\ call.causes[1] # call.causes[3]

\* C20: when every attempt has failed, uploadResume, downloadResume and
\* deleteResume throw the error of the last failed S3 call.
C20_LastErrorPropagated ==
    (/\ call.fn \in {"uploadResume", "downloadResume", "deleteResume"}
     /\ call.pc = "thrown"
     /\ call.attempts >= 1)
        => call.error = call.causes[Len(call.causes)]

\* C22: when pool.query resolves, with rows or with none, queryWithRetry
\* returns that result at once, without another invocation and without a
\* delay; within a call another invocation is issued only after a rejection,
\* never after a resolution; a call whose first invocation resolved has
\* invoked pool.query exactly once.
C22_EmptyResultNotRetried ==
    [][call.fn = "queryWithRetry"
         => /\ (call.pc = "pending" /\ call'.resolved # call.resolved)
                  => /\ call'.pc = "returned"
                     /\ call'.result = call'.value
                     /\ call'.error = ""
                     /\ call'.invocations = call.invocations
                     /\ call'.waits = call.waits
            /\ (call.pc \in {"pending", "waiting"}
                   /\ call'.invocations # call.invocations)
                  => /\ call.pc = "waiting"
                     /\ call.resolved = 0
                     /\ call.failures = call.invocations
                     /\ Len(call.causes) = call.invocations
            /\ (call.pc = "pending" /\ call.failures = 0
                   /\ call'.resolved # call.resolved)
                  => call'.invocations = 1
      ]_vars

\* C22 witness: queryWithRetry, allowed three attempts, has returned a result
\* with zero rows after one invocation.
C22_Witness ==
    /\ call.fn = "queryWithRetry"
    /\ call.pc = "returned"
    /\ call.attempts = 3
    /\ call.resolved = 1
    /\ call.value = 0
    /\ call.result = 0
    /\ call.invocations = 1

\* C25: a delay is started only by a failed attempt that is not the last
\* one, one delay per such failure: a call that returns after k failures
\* has waited k times, a call that throws after attempts failures has waited
\* attempts - 1 times, and neither a resolution nor the final failure
\* starts a delay.
C25_OneWaitPerNonFinalFailure ==
    [][/\ (call.pc \in {"pending", "waiting"} /\ call'.waits # call.waits)
             => /\ call.pc = "pending"
                /\ call'.pc = "waiting"
                /\ call'.waits = call.waits + 1
                /\ call'.failures = call.failures + 1
                /\ call'.failures < call'.attempts
       /\ call'.pc = "waiting" => call'.waits = call'.failures
       /\ call'.pc = "pending" => call'.waits = call'.failures
       /\ call'.pc = "returned"
             => /\ call'.waits = call'.failures
                /\ call'.waits = call'.invocations - 1
       /\ (call'.pc = "thrown" /\ call'.attempts >= 1)
             => /\ call'.failures = call'.attempts
                /\ call'.waits = call'.attempts - 1
       /\ (call.pc = "pending" /\ call'.pc \in {"returned", "thrown"})
             => call'.waits = call.waits
      ]_vars

\* C25 witness: deleteResume has thrown after three failed attempts and two
\* delays.
C25_Witness ==
    /\ call.fn = "deleteResume"
    /\ call.pc = "thrown"
    /\ call.attempts = 3
    /\ call.failures = 3
    /\ call.waits = 2

----------------------------------------------------------------------------
(* The resume routes of src/app.js *)

\* Files a client attaches to POST /api/resumes: none, a text file, PDFs.
Files ==
    {NoFile,
     [mimetype |-> "text/plain", originalname |-> "notes.txt",
      buffer |-> "notes"],
     [mimetype |-> "application/pdf", originalname |-> "a.pdf",
      buffer |-> "%PDF-a"],
     [mimetype |-> "application/pdf", originalname |-> "b.pdf",
      buffer |-> "%PDF-b"]}

\* The :id parameters a client sends.
IdParams == {"1", "2", "abc", "1.5", "2abc"}

\* The number a parameter starts with, as parseFloat reads it: none (NaN),
\* or its whole part and whether a fraction follows.
ParseFloat(param) ==
    CASE param = "1" -> [nan |-> FALSE, whole |-> 1, fraction |-> FALSE]
      [] param = "2" -> [nan |-> FALSE, whole |-> 2, fraction |-> FALSE]
      [] param = "2abc" -> [nan |-> FALSE, whole |-> 2, fraction |-> FALSE]
      [] param = "1.5" -> [nan |-> FALSE, whole |-> 1, fraction |-> TRUE]
      [] OTHER -> [nan |-> TRUE, whole |-> 0, fraction |-> FALSE]

\* parseInt(param): the leading digits, NaN (here 0, with isNaN) if none.
ParseInt(param) == ParseFloat(param).whole

\* isNaN(resumeId) || !Number.isInteger(parseFloat(req.params.id))
InvalidResumeId(param) ==
    ParseFloat(param).nan \/ ParseFloat(param).fraction

ResumeResponse(status, error) ==
    [status |-> status, error |-> error, resumeId |-> 0, body |-> NoBody]

\* Mutant: the error handler sends the message of the error it was given.
ErrorHandler_EchoesMessage(err) == ResumeResponse(500, err)

\* The error handler middleware: logger.error(err), then 500 with the one
\* generic body.
ErrorHandler(err) == ResumeResponse(500, "Internal server error")

\* A new request takes the lowest free handler slot.
FreeHandler(h) ==
    /\ handlers[h].pc = "idle"
    /\ \A g \in ResumeSlots : g < h => handlers[g].pc # "idle"

\* The function a handler awaits at pc.
AwaitedFunction(pc) ==
    IF pc \in {"insert", "select", "deleteRow"} THEN "queryWithRetry" ELSE pc

\* A handler that awaits queryWithRetry or an S3 function.
Awaiting(h) == handlers[h].pc # "idle"

\* await ...: the handler has made one more call, and waits at pc.
Await(frame, pc) == [frame EXCEPT !.pc = pc, !.ops = @ + 1]

\* The handler sends its response and ends.
ResumeRespond(h, frame, response, failed, cause) ==
    /\ handlers' = [handlers EXCEPT ![h] = IdleHandler]
    /\ answered' = [kind |-> frame.kind, resumeId |-> frame.resumeId,
                    res |-> response, ops |-> frame.ops, failed |-> failed,
                    cause |-> cause]

\* The rows SELECT / DELETE ... WHERE id = $1 matches.
WhereId(table, id) == {row \in table : row.id = id}

\* Mutant: the DELETE returns the row but leaves it in the table.
DeleteFromResumes_KeepsRow(table, id) == table

\* DELETE from resumes WHERE id = $1
DeleteFromResumes(table, id) == table \ WhereId(table, id)

\* Mutant: the command resolves before the object is stored.
PutObjectCommand_NotStored(bucketObjects, key, body) == bucketObjects

\* The bucket after PutObjectCommand { Key, Body } has resolved.
PutObjectCommand(bucketObjects, key, body) ==
    {o \in bucketObjects : o.key # key} \cup {[key |-> key, body |-> body]}

\* The bucket after DeleteObjectCommand { Key } has resolved.
DeleteObjectCommand(bucketObjects, key) ==
    {o \in bucketObjects : o.key # key}

\* The ways an awaited queryWithRetry or S3 function ends: it returns, or
\* it throws after pool.query / client.send has rejected on each attempt,
\* the last time with one of Causes.
Outcomes == {"resolved"} \cup Causes

\* The awaited function threw: the handler passes the error to next(err)
\* and the error handler answers.
Fail(h, frame, cause) ==
    ResumeRespond(h, frame,
                  ErrorHandler(ThrownError(AwaitedFunction(frame.pc), cause)),
                  frame.pc, cause)

\* POST /api/resumes: validation, then uploadResume(pdfBuffer), which draws
\* its object key and sends the PutObjectCommand; when it returns, the
\* object is in the bucket and the handler issues the INSERT INTO resumes.
PostResume(h, file, outcome) ==
    /\ FreeHandler(h)
    /\ LET frame == [IdleHandler EXCEPT !.kind = "upload", !.file = file]
           upload == Await([frame EXCEPT !.objectKey = uuidCount + 1],
                           "uploadResume")
       IN IF file = NoFile
          THEN /\ ResumeRespond(h, frame, ResumeResponse(400, "Missing file"),
                                "", "")
               /\ UNCHANGED <<uuidCount, objects>>
          ELSE IF file.mimetype # "application/pdf"
          THEN /\ ResumeRespond(h, frame,
                                ResumeResponse(400, "Received non-PDF file"),
                                "", "")
               /\ UNCHANGED <<uuidCount, objects>>
          ELSE /\ uuidCount < MaxUploads
               /\ uuidCount' = uuidCount + 1
               /\ IF outcome = "resolved"
                  THEN /\ objects' = PutObjectCommand(objects,
                                                      upload.objectKey,
                                                      file.buffer)
                       /\ handlers' = [handlers EXCEPT
                                          ![h] = Await(upload, "insert")]
                       /\ UNCHANGED answered
                  ELSE /\ Fail(h, upload, outcome)
                       /\ UNCHANGED objects
    /\ UNCHANGED <<resumes, nextResumeId, uploadedOk, deletedOk, call,
                   bucket, sweep, authVars, guardVars>>

\* The INSERT resolves: RETURNING id, and 201 { resumeId }.
InsertResolve(h) ==
    /\ handlers[h].pc = "insert"
    /\ resumes' = resumes \cup
          {[id |-> nextResumeId,
            original_filename |-> handlers[h].file.originalname,
            object_key |-> handlers[h].objectKey]}
    /\ nextResumeId' = nextResumeId + 1
    /\ ResumeRespond(h, [handlers[h] EXCEPT !.resumeId = nextResumeId],
                     [ResumeResponse(201, "") EXCEPT
                         !.resumeId = nextResumeId],
                     "", "")
    /\ uploadedOk' = uploadedOk \cup
          {[id |-> nextResumeId, key |-> handlers[h].objectKey,
            body |-> handlers[h].file.buffer]}
    /\ UNCHANGED <<objects, uuidCount, deletedOk, call, bucket, sweep,
                   authVars, guardVars>>

\* GET /api/resumes/:id, past its middleware: validation, then the SELECT:
\* 404 without a row, else downloadResume(objectKey).
GetResume(h, param, outcome) ==
    /\ FreeHandler(h)
    /\ LET frame == [IdleHandler EXCEPT !.kind = "get",
                                        !.resumeId = ParseInt(param)]
           select == Await(frame, "select")
           rows == WhereId(resumes, select.resumeId)
       IN IF InvalidResumeId(param)
          THEN ResumeRespond(h, frame,
                             ResumeResponse(400, "Invalid resume ID"), "", "")
          ELSE IF outcome # "resolved"
          THEN Fail(h, select, outcome)
          ELSE IF rows = {}
          THEN ResumeRespond(h, select,
                             ResumeResponse(404, "Resume not found"), "", "")
          ELSE /\ \E row \in rows :
                    handlers' =
                       [handlers EXCEPT
                           ![h] = Await([select EXCEPT
                                            !.objectKey = row.object_key],
                                        "downloadResume")]
               /\ UNCHANGED answered
    /\ UNCHANGED <<resumes, objects, nextResumeId, uuidCount, uploadedOk,
                   deletedOk, call, bucket, sweep, authVars, guardVars>>

\* downloadResume returns the object: its Body is piped to the response.
\* (GetObject of a key that is not in the bucket rejects.)
DownloadResolve(h) ==
    /\ handlers[h].pc = "downloadResume"
    /\ \E o \in objects :
          /\ o.key = handlers[h].objectKey
          /\ ResumeRespond(h, handlers[h],
                           [ResumeResponse(200, "") EXCEPT !.body = o.body],
                           "", "")
    /\ UNCHANGED <<resumes, objects, nextResumeId, uuidCount, uploadedOk,
                   deletedOk, call, bucket, sweep, authVars, guardVars>>

\* DELETE /api/resumes/:id: validation, then the DELETE ... RETURNING: 404
\* without a row, else the row is gone and the handler calls
\* deleteResume(objectKey).
DeleteResume(h, param, outcome) ==
    /\ FreeHandler(h)
    /\ LET frame == [IdleHandler EXCEPT !.kind = "delete",
                                        !.resumeId = ParseInt(param)]
           delete == Await(frame, "deleteRow")
           rows == WhereId(resumes, delete.resumeId)
       IN IF InvalidResumeId(param)
          THEN /\ ResumeRespond(h, frame,
                                ResumeResponse(400, "Invalid resume ID"),
                                "", "")
               /\ UNCHANGED resumes
          ELSE IF outcome # "resolved"
          THEN /\ Fail(h, delete, outcome)
               /\ UNCHANGED resumes
          ELSE IF rows = {}
          THEN /\ ResumeRespond(h, delete,
                                ResumeResponse(404, "Resume not found"),
                                "", "")
               /\ UNCHANGED resumes
          ELSE /\ resumes' = DeleteFromResumes(resumes, delete.resumeId)
               /\ \E row \in rows :
                    handlers' =
                       [handlers EXCEPT
                           ![h] = Await([delete EXCEPT
                                            !.objectKey = row.object_key],
                                        "deleteResume")]
               /\ UNCHANGED answered
    /\ UNCHANGED <<objects, nextResumeId, uuidCount, uploadedOk, deletedOk,
                   call, bucket, sweep, authVars, guardVars>>

\* deleteResume returns: the object is gone, and 204.
DeleteObjectResolve(h) ==
    /\ handlers[h].pc = "deleteResume"
    /\ objects' = DeleteObjectCommand(objects, handlers[h].objectKey)
    /\ ResumeRespond(h, handlers[h], ResumeResponse(204, ""), "", "")
    /\ deletedOk' = deletedOk \cup
          {[id |-> handlers[h].resumeId, key |-> handlers[h].objectKey]}
    /\ UNCHANGED <<resumes, nextResumeId, uuidCount, uploadedOk, call,
                   bucket, sweep, authVars, guardVars>>

\* The function a handler awaits after its first one throws (the loop
\* itself is SpecRetry; nothing was written).
OperationFails(h, cause) ==
    /\ Awaiting(h)
    /\ Fail(h, handlers[h], cause)
    /\ UNCHANGED <<resumes, objects, nextResumeId, uuidCount, uploadedOk,
                   deletedOk, call, bucket, sweep, authVars, guardVars>>

NextResume ==
    \/ \E h \in ResumeSlots, file \in Files, outcome \in Outcomes :
          PostResume(h, file, outcome)
    \/ \E h \in ResumeSlots : InsertResolve(h)
    \/ \E h \in ResumeSlots, param \in IdParams, outcome \in Outcomes :
          GetResume(h, param, outcome)
    \/ \E h \in ResumeSlots : DownloadResolve(h)
    \/ \E h \in ResumeSlots, param \in IdParams, outcome \in Outcomes :
          DeleteResume(h, param, outcome)
    \/ \E h \in ResumeSlots : DeleteObjectResolve(h)
    \/ \E h \in ResumeSlots, cause \in Causes : OperationFails(h, cause)

SpecResume == Init /\ [][NextResume]_vars

----------------------------------------------------------------------------
(* Properties of emptyBucket (checked under SpecBucket) *)

\* C23: emptyBucket called while NODE_ENV is not 'test' throws 'Cannot empty
\* bucket outside of testing' in the step of the call: it has sent no list
\* and no delete command, failed no attempt and waited for none, and the
\* bucket is as it was.
C23_RefusedOutsideTesting ==
    [][/\ (sweep.pc \in {"idle", "returned", "thrown"} /\ sweep' # sweep
             /\ sweep'.env # "test")
             => /\ sweep'.pc = "thrown"
                /\ sweep'.error = "Cannot empty bucket outside of testing"
                /\ bucket' = bucket
       /\ sweep'.env \notin {"test", ""}
             => /\ sweep'.pc = "thrown"
                /\ sweep'.lists = 0
                /\ sweep'.deletes = 0
                /\ sweep'.failures = 0
                /\ sweep'.waits = 0
                /\ sweep'.listed = {}
      ]_vars

\* C23 witness: called in development with three attempts over a bucket that
\* holds objects, emptyBucket has thrown.
C23_Witness ==
    /\ sweep.env = "development"
    /\ sweep.pc = "thrown"
    /\ sweep.attempts = 3
    /\ sweep.error = "Cannot empty bucket outside of testing"
    /\ bucket # {}

\* C29: in the test environment every attempt of emptyBucket sends one list
\* command; when it resolves without keys the function returns and no
\* delete is sent, otherwise one delete naming exactly the listed keys is
\* sent and, when it resolves, those keys are gone and the function returns.
\* A rejected list or delete fails the attempt; the attempt after the delay
\* starts with a list again; with the default 3 attempts the function throws
\* after 3 failures.
C29_ListThenDeleteAsOneUnit ==
    [][sweep'.env = "test"
         => /\ (sweep.pc = "listing" /\ sweep'.failures = sweep.failures
                   /\ sweep' # sweep)
                  => /\ bucket' = bucket
                     /\ sweep'.lists = sweep.lists
                     /\ IF ListObjectsV2(bucket) = {}
                        THEN /\ sweep'.pc = "returned"
                             /\ sweep'.deletes = sweep.deletes
                        ELSE /\ sweep'.pc = "deleting"
                             /\ sweep'.deletes = sweep.deletes + 1
                             /\ sweep'.listed = ListObjectsV2(bucket)
            /\ (sweep.pc = "deleting" /\ sweep'.failures = sweep.failures
                   /\ sweep' # sweep)
                  => /\ sweep'.pc = "returned"
                     /\ bucket' = bucket \ sweep.listed
                     /\ sweep'.deletes = sweep.deletes
                     /\ sweep'.lists = sweep.lists
            /\ (sweep.pc \in {"listing", "deleting"}
                   /\ sweep'.failures # sweep.failures)
                  => /\ sweep'.failures = sweep.failures + 1
                     /\ bucket' = bucket
                     /\ sweep'.pc = IF sweep.attempt = sweep.attempts - 1
                                    THEN "thrown" ELSE "waiting"
            /\ (sweep.pc = "waiting" /\ sweep' # sweep)
                  => /\ sweep'.pc = "listing"
                     /\ sweep'.attempt = sweep.attempt + 1
                     /\ sweep'.lists = sweep.lists + 1
                     /\ sweep'.deletes = sweep.deletes
            /\ sweep'.pc \in {"listing", "deleting", "waiting", "returned"}
                  => /\ sweep'.lists = sweep'.attempt + 1
                     /\ sweep'.deletes <= sweep'.lists
            /\ (sweep'.pc = "thrown" /\ sweep'.attempts = DefaultAttempts)
                  => /\ sweep'.failures = 3
                     /\ sweep'.lists = 3
                     /\ sweep'.error = "Empty bucket failed after all attempts"
      ]_vars

\* C29 witness: in the test environment, with the default attempts,
\* emptyBucket has thrown after three lists, one attempt at least having
\* failed in its delete.
C29_Witness ==
    /\ sweep.env = "test"
    /\ sweep.pc = "thrown"
    /\ sweep.attempts = DefaultAttempts
    /\ sweep.lists = 3
    /\ sweep.deletes >= 1
    /\ \E i \in 1..Len(sweep.failedAt) : sweep.failedAt[i] = "deleting"

\* C30: an attempt of emptyBucket sends a single list command and deletes
\* what that one response carried, at most one page: when the bucket held
\* more keys than a page when it was listed, the call that returns after
\* its delete leaves the keys beyond the first page in the bucket.
C30_NotPaginationSafe ==
    [][/\ (sweep.pc = "listing" /\ sweep'.pc \in {"deleting", "returned"})
             => /\ sweep'.lists = sweep.lists
                /\ sweep'.held = bucket
                /\ sweep'.listed \subseteq bucket
                /\ Cardinality(sweep'.listed) <= PageSize
       /\ (sweep.pc = "deleting" /\ sweep'.pc = "returned")
             => /\ sweep'.lists = sweep.lists
                /\ sweep'.lists = sweep'.attempt + 1
                /\ (sweep.held \ sweep.listed) \subseteq bucket'
                /\ Cardinality(sweep.held) > PageSize
                      => /\ sweep.held \ sweep.listed # {}
                         /\ bucket' # {}
      ]_vars

\* C30 witness: emptyBucket has returned after its delete, and keys that
\* were in the bucket when it was listed, beyond the page, are still there.
C30_Witness ==
    /\ sweep.env = "test"
    /\ sweep.pc = "returned"
    /\ sweep.deletes >= 1
    /\ Cardinality(sweep.held) > PageSize
    /\ sweep.held \ sweep.listed # {}
    /\ sweep.held \ sweep.listed \subseteq bucket

----------------------------------------------------------------------------
(* Properties of the refresh_tokens store (checked under Spec) *)

\* C26: a refresh(t) that answers 200 has rewritten, in that step, exactly
\* the record whose refresh_token_hash was hash(t): its hash is now the hash
\* of the new refresh token and its expires_at the instant the UPDATE
\* parameters were built + 30 days, its id and user_id are what they were,
\* every other record is untouched and the table holds as many records as
\* before.
C26_RotateUpdatesInPlace ==
    [][\A r \in Slots :
          (reqs[r].kind = "refresh" /\ Answers(r, 200))
              => /\ Cardinality(refresh_tokens')
                       = Cardinality(refresh_tokens)
                 /\ \E row \in RecordsOf(refresh_tokens,
                                         reqs[r].refreshToken) :
                       refresh_tokens' =
                          (refresh_tokens \ {row}) \cup
                             {[row EXCEPT
                                  !.refresh_token_hash =
                                      hash(last'.res.refreshToken),
                                  !.expires_at = reqs[r].expiresAt]}]_vars

\* C27: the passage of time changes no record.  A record whose expires_at
\* has passed stays as it is in every step, except that a logout with the
\* token of its hash deletes it, and a refresh that read it before it
\* expired rewrites it; a refresh rejected with 401 leaves the table, the
\* expired record included, as it was; and a record leaves the table only
\* in the step of a logout with the token of its hash.
C27_ExpiryEnforcedLazily ==
    [][/\ now' # now => refresh_tokens' = refresh_tokens
       /\ \A row \in refresh_tokens :
             /\ row.expires_at < now
                   => \/ row \in refresh_tokens'
                      \/ /\ AnsweredAtOnce("logout")
                         /\ last'.res.status = 204
                         /\ hash(last'.refreshToken) = row.refresh_token_hash
                         /\ refresh_tokens' = refresh_tokens \ {row}
                      \/ \E r \in Slots :
                            /\ reqs[r].pc = "refreshUpdate"
                            /\ Answers(r, 200)
                            /\ reqs[r].refreshTokenHash
                                  = row.refresh_token_hash
                            /\ \E kept \in refresh_tokens' :
                                  kept.id = row.id
             /\ (\A kept \in refresh_tokens' : kept.id # row.id)
                   => /\ AnsweredAtOnce("logout")
                      /\ hash(last'.refreshToken) = row.refresh_token_hash
       /\ (AnsweredAtOnce("refresh") /\ last'.res.status = 401)
             => refresh_tokens' = refresh_tokens
      ]_vars

\* C27 witness: a refresh has been rejected with 401 and the expired record
\* of its token is still in the table.
C27_Witness ==
    /\ last.kind = "refresh"
    /\ last.res.status = 401
    /\ \E row \in RecordsOf(refresh_tokens, last.refreshToken) :
          row.expires_at < now

\* C28: no two records have the same refresh_token_hash; a login that
\* answers 200 has added exactly one record and a refresh that answers 200
\* has left the number of records unchanged; and the refresh token either
\* of them hands out is stored, by its hash, in exactly one record.
C28_OneRecordPerLiveToken ==
    [][/\ \A row, other \in refresh_tokens' :
             row.refresh_token_hash = other.refresh_token_hash
                => row = other
       /\ \A r \in Slots :
             /\ (reqs[r].kind = "login" /\ Answers(r, 200))
                   => /\ Cardinality(refresh_tokens')
                            = Cardinality(refresh_tokens) + 1
                      /\ Cardinality(RecordsOf(refresh_tokens',
                                               last'.res.refreshToken)) = 1
             /\ (reqs[r].kind = "refresh" /\ Answers(r, 200))
                   => /\ Cardinality(refresh_tokens')
                            = Cardinality(refresh_tokens)
                      /\ Cardinality(RecordsOf(refresh_tokens',
                                               last'.res.refreshToken)) = 1
      ]_vars

----------------------------------------------------------------------------
(* Properties of the resume routes (checked under SpecResume) *)

\* The ids of a set of history records.
IdsOf(records) == {record.id : record \in records}

C24_BlobRoundTrip ==
    [][/\ \A u \in uploadedOk' :
             \A row \in resumes' :
                 row.id = u.id
                    => /\ row.object_key = u.key
                       /\ [key |-> u.key, body |-> u.body] \in objects'
                       /\ \A o \in objects' : o.key = u.key => o.body = u.body
       /\ \A u \in uploadedOk' \ uploadedOk :
             /\ answered'.res.status = 201
             /\ answered'.res.resumeId = u.id
             /\ u.id \in IdsOf(resumes')
       /\ \A h \in ResumeSlots :
             (handlers[h].pc = "downloadResume" /\ handlers'[h].pc = "idle"
                /\ answered'.res.status = 200)
                => \E u \in uploadedOk :
                      /\ u.id = handlers[h].resumeId
                      /\ u.key = handlers[h].objectKey
                      /\ answered'.res.body = u.body
       /\ \A d \in deletedOk' :
             /\ d.id \notin IdsOf(resumes')
             /\ \A o \in objects' : o.key # d.key
       /\ (answered' # answered /\ answered'.kind = "get"
             /\ answered'.resumeId \in IdsOf(deletedOk)
             /\ answered'.failed = "" /\ answered'.res.status # 400)
             => /\ answered'.res.status = 404
                /\ answered'.res.error = "Resume not found"
      ]_vars

\* C24 witness: a resume that was uploaded and then deleted, both
\* successfully, has been asked for again and the answer was 404.
C24_Witness ==
    /\ answered.kind = "get"
    /\ answered.res.status = 404
    /\ answered.res.error = "Resume not found"
    /\ answered.resumeId \in IdsOf(uploadedOk)
    /\ answered.resumeId \in IdsOf(deletedOk)

----------------------------------------------------------------------------
(* Further properties of the retry loops (checked under SpecRetry) *)

\* C31: uploadResume builds its object key, a uuid followed by '.pdf', once,
\* before the loop: the key does not change while the call lasts, every
\* PutObjectCommand of the call names it, one per attempt; whatever the
\* attempts did, stored or not, the call has added at most one object to
\* the bucket, under that key; and the objectKey it returns is that key.
C31_OneKeyPerUpload ==
    [][call'.fn = "uploadResume"
         => /\ call'.objectKey = ObjectKeyOf(call'.key)
            /\ call'.objectKey.ext = ".pdf"
            /\ call.pc \in {"pending", "waiting"}
                  => /\ call'.key = call.key
                     /\ call'.objectKey = call.objectKey
                     /\ bucket' \ bucket \subseteq {call.key}
            /\ Len(call'.sent) = call'.invocations
            /\ \A i \in 1..Len(call'.sent) : call'.sent[i] = call'.objectKey
            /\ bucket' \ call'.before \subseteq {call'.key}
            /\ Cardinality(bucket' \ call'.before) <= 1
            /\ call'.pc = "returned"
                  => /\ call'.result = call'.objectKey.id
                     /\ call'.key \in bucket'
      ]_vars

\* C31 witness: uploadResume has returned its key after two failed
\* attempts, one of which had stored the object.
C31_Witness ==
    /\ call.fn = "uploadResume"
    /\ call.pc = "returned"
    /\ call.failures = 2
    /\ Len(call.sent) = 3
    /\ call.result = call.key
    /\ bucket \ call.before = {call.key}

----------------------------------------------------------------------------
(* Further properties of the sessions (checked under Spec) *)

\* The hashes of the refresh tokens the step is performed with: that of the
\* refresh whose UPDATE resolves in it, or of the logout handled in it.
HashesActedWith ==
    {reqs[r].refreshTokenHash :
        r \in {q \in Slots : /\ reqs[q].pc = "refreshUpdate"
                              /\ reqs'[q].pc = "idle"}}
      \cup (IF started' # started /\ last'.kind = "logout"
            THEN {hash(last'.refreshToken)} ELSE {})

\* C32: sessions are independent.  A record that a step alters or removes
\* is the record of the refresh token the step is performed with; the
\* records of all other tokens, those of the same user included, stay as
\* they are; and a login that succeeds adds one record and leaves every
\* existing one in place.
C32_SessionsIndependent ==
    [][/\ \A row \in refresh_tokens :
             row \notin refresh_tokens'
                 => row.refresh_token_hash \in HashesActedWith
       /\ \A row \in refresh_tokens' \ refresh_tokens :
             \/ row.id = nextRowId /\ nextRowId' = nextRowId + 1
             \/ \E old \in refresh_tokens \ refresh_tokens' :
                   old.id = row.id /\ old.user_id = row.user_id
       /\ (\E r \in Slots : /\ reqs[r].pc = "loginInsert"
                             /\ reqs'[r].pc = "idle"
                             /\ last'.res.status = 200)
             => /\ refresh_tokens \subseteq refresh_tokens'
                /\ Cardinality(refresh_tokens')
                      = Cardinality(refresh_tokens) + 1
      ]_vars

\* C32 witness: a user has logged in twice and one of the two sessions has
\* been logged out; the record of the other session is still there.
C32_Witness ==
    /\ last.kind = "logout"
    /\ last.res.status = 204
    /\ nextRowId = 3
    /\ Cardinality(refresh_tokens) = 1
    /\ \A row \in refresh_tokens :
          /\ row.refresh_token_hash # hash(last.refreshToken)
          /\ row.refresh_token_hash \in {hash(t) : t \in IssuedTokens}

----------------------------------------------------------------------------
(* Access tokens outlive their session (checked under SpecSession) *)

\* The session the access token was issued with has no record any more
\* under the hash of its refresh token: it was logged out or rotated.
SessionEnded(m) ==
    SelectWhereHash(refresh_tokens, hash(m.refreshToken)) = {}

\* C33: authenticate decides from the signature and the expiry of the
\* access token alone: it reads and changes no record, and an access token
\* issued with a session is passed on by authenticate exactly while its own
\* expiry lies ahead, and by authorize when its claim says isAdmin, whether
\* or not the session has since been logged out or rotated.
C33_NoStoreLookup ==
    [][/\ (guard.pc \in {"authenticate", "authorize"} /\ ChainStep)
             => refresh_tokens' = refresh_tokens
       /\ (guard.pc = "authenticate" /\ ChainStep
              /\ guard.header = "Bearer token")
             => \A m \in minted :
                   guard.token = m.token
                      => IF now < m.token.iat + EXPIRES_IN
                         THEN /\ guard'.pc # "done"
                              /\ guard'.user = m.token
                         ELSE /\ guard'.pc = "done"
                              /\ guard'.status = 401
       /\ (guard.pc = "authorize" /\ ChainStep)
             => \A m \in minted :
                   (guard.token = m.token /\ m.identity.isAdmin)
                      => guard'.pc = "handler"
      ]_vars

\* C33 witness: the session of an administrator was ended, and a request
\* that arrived afterwards with the access token of that session has passed
\* authenticate and authorize and is at its handler.
C33_Witness ==
    /\ guard.pc = "authorize"
    /\ guard.trace = <<"authenticate">>
    /\ \E m \in minted :
          /\ guard.token = m.token
          /\ guard.user = m.token
          /\ m.identity.isAdmin
          /\ SessionEnded(m)
          /\ now < m.token.exp

----------------------------------------------------------------------------
(* Logout with a superseded token (checked under Spec) *)

\* C34: a logout(t) whose DELETE resolves after a refresh(t) has answered
\* 200 answers 204 and deletes no record: the table is as it was, so the
\* record the rotation wrote under the hash of the new token t2 is still
\* there and, unless it has expired, a refresh(t2) still finds it.
C34_SupersededLogoutDeletesNothing ==
    [][(AnsweredAtOnce("logout") /\ last'.refreshToken \in rotatedOk
          /\ last'.res.status # 500)
          => /\ last'.res.status = 204
             /\ refresh_tokens' = refresh_tokens
             /\ ~HasRecord(refresh_tokens, last'.refreshToken)
             /\ (last.kind = "refresh" /\ last.res.status = 200
                   /\ last.refreshToken = last'.refreshToken)
                   => /\ RecordsOf(refresh_tokens', last.res.refreshToken)
                           = RecordsOf(refresh_tokens, last.res.refreshToken)
                      /\ LiveRecord(refresh_tokens, last.res.refreshToken,
                                    now)
                            => LiveRecord(refresh_tokens',
                                          last.res.refreshToken, now')
      ]_vars

\* C34 witness: after a login and a rotation of its token, a logout with
\* the superseded token has been answered 204 and the session record, now
\* under the hash of another issued token, is live.
C34_Witness ==
    /\ last.kind = "logout"
    /\ last.res.status = 204
    /\ last.wasRotated
    /\ last.refreshToken \in IssuedTokens
    /\ \E t2 \in IssuedTokens \ {last.refreshToken} :
          LiveRecord(refresh_tokens, t2, now)

----------------------------------------------------------------------------
(* Logout racing a rotation (checked under SpecLogoutRace) *)

\* C35: logout is not atomic with a concurrent rotate of the same token.
\* When the DELETE of a logout(t) resolves after the UPDATE of a refresh(t),
\* the logout answers 204 and has deleted nothing: every record, the one
\* the rotation rewrote under the new hash included, is still there; and
\* this is so even when a record of t existed as the logout was requested.
C35_LogoutNotAtomicWithRotate ==
    [][\A r \in Slots :
          (reqs[r].pc = "logoutDelete" /\ Completes(r)
             /\ last'.res.status # 500
             /\ reqs[r].refreshToken \in rotatedOk)
             => /\ last'.res.status = 204
                /\ refresh_tokens' = refresh_tokens
                /\ ~HasRecord(refresh_tokens, reqs[r].refreshToken)
      ]_vars

\* C35 witness: a logout(t) requested while the record of t existed has
\* been answered 204 after a concurrent refresh(t) had committed, and the
\* session is live under the hash of another token.
C35_Witness ==
    /\ last.kind = "logout"
    /\ last.res.status = 204
    /\ last.hadRecord
    /\ last.wasRotated
    /\ ~last.wasRevoked
    /\ ~HasRecord(refresh_tokens, last.refreshToken)
    /\ \E t2 \in IssuedTokens \ {last.refreshToken} :
          LiveRecord(refresh_tokens, t2, now)

----------------------------------------------------------------------------
(* A rotation that fails after its lookup (checked under Spec) *)

\* C36: when the SELECT of the user or the UPDATE of a refresh(t) has
\* failed on all its attempts, the response is 500 'Internal server error'
\* and carries no token; the tokens the handler had generated, if any, are
\* stored nowhere; and the table is as it was, so a record of t that was
\* live before the failure is live after it, for a later refresh(t).
C36_FailedRotationLeavesOldToken ==
    [][\A r \in Slots :
          (reqs[r].kind = "refresh" /\ Querying(r) /\ Answers(r, 500))
             => /\ last'.res = InternalError
                /\ last'.res.accessToken = NoAccessToken
                /\ last'.res.refreshToken = NoToken
                /\ refresh_tokens' = refresh_tokens
                /\ reqs[r].refreshToken \notin rotatedOk'
                      \/ reqs[r].refreshToken \in rotatedOk
                /\ reqs[r].newRefreshToken # NoToken
                      => ~HasRecord(refresh_tokens', reqs[r].newRefreshToken)
                /\ LiveRecord(refresh_tokens, reqs[r].refreshToken, now)
                      => LiveRecord(refresh_tokens', reqs[r].refreshToken,
                                    now')
      ]_vars

\* C36 witness: the UPDATE of a refresh(t) has failed, the request was
\* answered 500 after its three queries, a token pair was generated for it,
\* and the record of t is live and no refresh(t) has succeeded.
C36_Witness ==
    /\ last.kind = "refresh"
    /\ last.res.status = 500
    /\ last.queries = 3
    /\ randomCount = 2
    /\ \A r \in Slots : reqs[r].pc = "idle"
    /\ ~last.wasRotated
    /\ LiveRecord(refresh_tokens, last.refreshToken, now)
    /\ ~HasRecord(refresh_tokens, 2)

----------------------------------------------------------------------------
(* Rows and blobs of resumes (checked under SpecResume) *)

----------------------------------------------------------------------------
(* Termination of the retry loops (checked under SpecRetryLive) *)

\* max(attempts - 1, 0)
WaitsAllowed(attempts) == IF attempts > 0 THEN attempts - 1 ELSE 0

\* C38: provided every underlying call settles, every call of
\* queryWithRetry, uploadResume, downloadResume, deleteResume and
\* emptyBucket returns or throws in the end, and at no time has it made
\* more than `attempts` attempts or waited more than attempts - 1 times.
C38_RetryLoopsTerminate ==
    /\ [](/\ call.invocations <= call.attempts
          /\ call.waits <= WaitsAllowed(call.attempts)
          /\ sweep.lists <= sweep.attempts
          /\ sweep.deletes <= sweep.attempts
          /\ sweep.waits <= WaitsAllowed(sweep.attempts))
    /\ \A fn \in RetryFns :
          (call.fn = fn /\ call.pc \in {"pending", "waiting"})
              ~> (call.fn = fn /\ call.pc \in {"returned", "thrown"})
    /\ (sweep.pc \in {"listing", "deleting", "waiting"})
          ~> (sweep.pc \in {"returned", "thrown"})

\* C38 witness: an emptyBucket has thrown after using up its attempts, its
\* last command having been a delete, and has waited attempts - 1 times.
C38_Witness ==
    /\ sweep.pc = "thrown"
    /\ sweep.failures = sweep.attempts
    /\ sweep.deletes >= 1
    /\ sweep.attempts = MaxAttempts
    /\ sweep.lists = sweep.attempts
    /\ sweep.waits = sweep.attempts - 1

----------------------------------------------------------------------------
(* queryWithRetry called with no attempts (checked under SpecRetry) *)

\* C39: queryWithRetry called with attempts = 0 has thrown 'Query failed
\* after all attempts' by the time the call is over, without having invoked
\* pool.query, waited or logged anything; and queryWithRetry has never
\* returned a value that was not the result of an invocation that resolved.
C39_ZeroAttemptsThrows ==
    (call.fn = "queryWithRetry" /\ call.pc # "idle")
        => /\ call.attempts = 0
                 => /\ call.pc = "thrown"
                    /\ call.error = "Query failed after all attempts"
                    /\ call.invocations = 0
                    /\ call.waits = 0
                    /\ call.failures = 0
                    /\ call.logged = <<>>
           /\ call.pc = "returned"
                 => /\ call.attempts >= 1
                    /\ call.resolved = 1
                    /\ call.invocations >= 1
                    /\ call.result = call.value

\* C39 witness: queryWithRetry was called with attempts = 0 and has thrown.
C39_Witness ==
    /\ call.fn = "queryWithRetry"
    /\ call.attempts = 0
    /\ call.pc = "thrown"
    /\ call.invocations = 0

====
